---- MODULE Spec2Model ----
(***************************************************************************)
(* State-machine model of the quest and challenge resolution engine of     *)
(* backend/game_state_manager.py (GameStateManager): the SQLite tables     *)
(* sessions.npc_states, player_stats, quests and challenges, and the       *)
(* operations that read and write them.                                    *)
(***************************************************************************)
EXTENDS Integers, Sequences, FiniteSets, TLC

VARIABLES
    npc_states,    \* sessions table: session_id -> (npc name -> npc state dict)
    player_stats,  \* player_stats table: session_id -> stat row
    quests,        \* quests table: quest id (PRIMARY KEY) -> row
    challenges,    \* challenges table: challenge id (PRIMARY KEY) -> row
    now,           \* time.time(), in whole seconds
    input,         \* arguments handed to a pure function under test
    last,          \* the last call: operation, arguments, return value, dice drawn
    calls_left,    \* calls the behaviour may still make
    entity_stubs,  \* entity_stubs table: id (the primary key) -> row
    session_data,  \* sessions table: session_id -> health, gold, inventory
    threads        \* concurrent executions of update_relationship: position and locals

vars == <<npc_states, player_stats, quests, challenges, now, input, last, calls_left,
          entity_stubs, session_data, threads>>

----------------------------------------------------------------------------
(* Bounds of the model *)

MaxCalls == 4          \* calls per behaviour of the ledger specification
MaxResolves == 2       \* calls per behaviour of the resolution specification
MaxDC == 30            \* difficulty classes 0..MaxDC
MaxStat == 20          \* stat values 0..MaxStat
MaxTotal == 40         \* roll totals 0..MaxTotal
MaxDelta == 150        \* raw relationship deltas -MaxDelta..MaxDelta
MaxQuestCalls == 2     \* calls per behaviour of the quest-decision specification
MaxMetaCalls == 2      \* calls per behaviour of the metadata specification
MaxEvents == 4         \* calls per behaviour of the named-event specification
MaxDecayCalls == 4     \* calls per behaviour of the quest-counter specification
MaxStubCalls == 3      \* calls per behaviour of the entity-stub specification

----------------------------------------------------------------------------
(* Identifiers the callers use *)

Sessions == {"s1", "s2"}
QuestIds == {"q1", "q2"}
ChallengeIds == {"c1", "c2"}
WorldCharacters == {"npc_a"}          \* characters of the loaded game world
NpcNames == {"npc_a", "npc_b"}        \* names a quest proposal may give as giver
None == "None"                        \* Python's None
D20 == 1..20                          \* random.randint(1, 20)

(* Python dict helpers *)
EmptyDict == [k \in {} |-> 0]
Get(d, k, default) == IF k \in DOMAIN d THEN d[k] ELSE default
Update(d, u) == [k \in (DOMAIN d) \cup (DOMAIN u) |-> IF k \in DOMAIN u THEN u[k] ELSE d[k]]
Put(d, k, v) == [x \in (DOMAIN d) \cup {k} |-> IF x = k THEN v ELSE d[x]]
Max(a, b) == IF a >= b THEN a ELSE b
Min(a, b) == IF a <= b THEN a ELSE b

(* str.lower() on the challenge type strings and tier names the model uses *)
TypeStrings == {"strength", "Strength", "magic"}
Lower(t) == CASE t = "Strength" -> "strength" [] t = "Boss" -> "boss" [] OTHER -> t

(* json.dumps turns a None key into the string "null"; after json.loads a  *)
(* lookup with the key None never finds it.                                *)
JsonKey(k) == IF k = None THEN "null" ELSE k

----------------------------------------------------------------------------
(* Module-level tables *)

DEFAULT_NPC_STATE ==
    [mood |-> "content", relationship |-> 50, quests_given_recently |-> 0,
     last_quest_given |-> 0, quest_cooldown_expires |-> 0]

(* variant: abandoning a quest costs what refusing one costs *)
RELATIONSHIP_MODIFIERS_abandon_as_refuse ==
    [quest_accepted |-> 2, auto_success |-> 5, roll_success |-> 8,
     minor_failure |-> -2, major_failure |-> -5, severe_failure |-> -10,
     critical_failure |-> -15, quest_refused |-> -3, quest_abandoned |-> -3]

RELATIONSHIP_MODIFIERS ==
    [quest_accepted |-> 2, auto_success |-> 5, roll_success |-> 8,
     minor_failure |-> -2, major_failure |-> -5, severe_failure |-> -10,
     critical_failure |-> -15, quest_refused |-> -3, quest_abandoned |-> -8]

(* change_amount of update_relationship: an event string or an integer *)
Event(name) == [kind |-> "str", value |-> name]
Delta(n) == [kind |-> "int", value |-> n]

----------------------------------------------------------------------------
(* Pure rules *)

(* variant: no automatic failure, a hopeless challenge is rolled *)
should_require_roll_no_auto_failure(challenge_dc, player_stat) ==
    LET margin == player_stat - challenge_dc IN
    IF margin >= 5
    THEN [requires_roll |-> FALSE, outcome |-> "auto_success", narrative |-> "Trivial task."]
    ELSE [requires_roll |-> TRUE, outcome |-> "uncertain"]

(* variant: auto-success only above a margin of 5 *)
should_require_roll_strict(challenge_dc, player_stat) ==
    LET margin == player_stat - challenge_dc IN
    IF margin > 5
    THEN [requires_roll |-> FALSE, outcome |-> "auto_success", narrative |-> "Trivial task."]
    ELSE IF margin <= -10
    THEN [requires_roll |-> FALSE, outcome |-> "auto_failure", narrative |-> "Beyond your ability."]
    ELSE [requires_roll |-> TRUE, outcome |-> "uncertain"]

should_require_roll(challenge_dc, player_stat) ==
    LET margin == player_stat - challenge_dc IN
    IF margin >= 5
    THEN [requires_roll |-> FALSE, outcome |-> "auto_success", narrative |-> "Trivial task."]
    ELSE IF margin <= -10
    THEN [requires_roll |-> FALSE, outcome |-> "auto_failure", narrative |-> "Beyond your ability."]
    ELSE [requires_roll |-> TRUE, outcome |-> "uncertain"]

(* variant: a miss by exactly 8 graded severe *)
calculate_failure_severity_strict(roll_total, dc, is_crit_fail) ==
    IF is_crit_fail THEN "critical"
    ELSE LET margin == roll_total - dc IN
         IF margin >= -3 THEN "minor"
         ELSE IF margin > -8 THEN "major"
         ELSE "severe"

calculate_failure_severity(roll_total, dc, is_crit_fail) ==
    IF is_crit_fail THEN "critical"
    ELSE LET margin == roll_total - dc IN
         IF margin >= -3 THEN "minor"
         ELSE IF margin >= -8 THEN "major"
         ELSE "severe"

----------------------------------------------------------------------------
(* NPC state: get_npc_state, decay_quest_counter, update_npc_state,        *)
(* update_relationship. Each takes the sessions table st and yields the    *)
(* value returned or the table afterwards.                                 *)

(* variant: decay begins at exactly one hour *)
decay_quest_counter_at_hour(npc_state, t) ==
    IF npc_state.quests_given_recently > 0
    THEN LET time_since == t - Get(npc_state, "last_quest_given", 0) IN
         IF time_since >= 3600
         THEN [npc_state EXCEPT !.quests_given_recently =
                                   Max(0, @ - (time_since \div 3600))]
         ELSE npc_state
    ELSE npc_state

decay_quest_counter(npc_state, t) ==
    IF npc_state.quests_given_recently > 0
    THEN LET time_since == t - Get(npc_state, "last_quest_given", 0) IN
         IF time_since > 3600
         THEN [npc_state EXCEPT !.quests_given_recently =
                                   Max(0, @ - (time_since \div 3600))]
         ELSE npc_state
    ELSE npc_state

(* the dict stored for the NPC; a None name is never found *)
stored_npc_state(st, session_id, npc_name) ==
    IF npc_name = None THEN EmptyDict ELSE Get(st[session_id], npc_name, EmptyDict)

(* the value get_npc_state returns *)
get_npc_state(st, session_id, npc_name, t) ==
    IF session_id \notin DOMAIN st
    THEN DEFAULT_NPC_STATE
    ELSE decay_quest_counter(
             Update(DEFAULT_NPC_STATE, stored_npc_state(st, session_id, npc_name)), t)

(* the sessions table after get_npc_state: a decayed counter is written back *)
get_npc_state_store(st, session_id, npc_name, t) ==
    IF session_id \notin DOMAIN st
    THEN st
    ELSE LET state == stored_npc_state(st, session_id, npc_name)
             full_state == get_npc_state(st, session_id, npc_name, t)
         IN  IF full_state.quests_given_recently # Get(state, "quests_given_recently", 0)
             THEN [st EXCEPT ![session_id] = Put(@, JsonKey(npc_name), full_state)]
             ELSE st

update_npc_state(st, session_id, npc_name, updates) ==
    IF session_id \notin DOMAIN st
    THEN st
    ELSE [st EXCEPT ![session_id] =
             Put(@, JsonKey(npc_name),
                 Update(stored_npc_state(st, session_id, npc_name), updates))]

(* variant: the time of the quest is not stamped *)
record_quest_given_unstamped(st, session_id, npc_name, t) ==
    LET npc_state == get_npc_state(st, session_id, npc_name, t)
        st1 == get_npc_state_store(st, session_id, npc_name, t)
    IN  update_npc_state(st1, session_id, npc_name,
                         [npc_state EXCEPT !.quests_given_recently = @ + 1,
                                           !.quest_cooldown_expires = t + 300])

(* the sessions table after record_quest_given *)
record_quest_given(st, session_id, npc_name, t) ==
    LET npc_state == get_npc_state(st, session_id, npc_name, t)
        st1 == get_npc_state_store(st, session_id, npc_name, t)
    IN  update_npc_state(st1, session_id, npc_name,
                         [npc_state EXCEPT !.quests_given_recently = @ + 1,
                                           !.last_quest_given = t,
                                           !.quest_cooldown_expires = t + 300])

(* variant: the upper bound forgotten *)
Clamp_floor_only(score) == Max(0, score)

Clamp(score) == Max(0, Min(100, score))

ModifierOf(change_amount) ==
    IF change_amount.kind = "str"
    THEN Get(RELATIONSHIP_MODIFIERS, change_amount.value, 0)
    ELSE change_amount.value

update_relationship(st, session_id, npc_name, change_amount, t) ==
    LET npc_state == get_npc_state(st, session_id, npc_name, t)
        st1 == get_npc_state_store(st, session_id, npc_name, t)
        modifier == ModifierOf(change_amount)
        current_relationship == Get(npc_state, "relationship", 50)
        new_relationship == Clamp(current_relationship + modifier)
    IN  update_npc_state(st1, session_id, npc_name,
                         [npc_state EXCEPT !.relationship = new_relationship])

(* the relationship a read of the NPC's state shows *)
Relationship(st, session_id, npc_name) ==
    get_npc_state(st, session_id, npc_name, now).relationship

----------------------------------------------------------------------------
(* Sessions and player stats *)

DefaultStats == [strength |-> 10, dexterity |-> 10, intelligence |-> 10, charisma |-> 10]

get_player_stats(ps, session_id) ==
    IF session_id \in DOMAIN ps THEN ps[session_id] ELSE DefaultStats

session_exists(st, session_id) == session_id \in DOMAIN st

InitialNpcStates == [n \in WorldCharacters |-> [location |-> "town"]]

(* health, gold and inventory of a new session *)
InitialSessionData == [health |-> 100, gold |-> 0, inventory |-> <<>>]

----------------------------------------------------------------------------
(* Quest and challenge tables *)

NULL == <<>>                      \* an SQL NULL column; a value v is stored as <<v>>

(* a row of the quests table with this id and session, or None *)
QuestRow(qs, session_id, quest_id) ==
    IF quest_id \in DOMAIN qs /\ qs[quest_id].session_id = session_id
    THEN <<qs[quest_id]>> ELSE NULL

get_quest_giver(qs, session_id, quest_id) ==
    LET row == QuestRow(qs, session_id, quest_id) IN
    IF row # NULL THEN row[1].giver_npc ELSE None

(* UPDATE quests SET status = ? WHERE id = ? AND session_id = ? *)
SetStatusInSession(qs, session_id, quest_id, status) ==
    IF QuestRow(qs, session_id, quest_id) # NULL
    THEN [qs EXCEPT ![quest_id].status = status] ELSE qs

(* UPDATE quests SET status = ? WHERE id = ? *)
SetStatusById(qs, quest_id, status) ==
    IF quest_id \in DOMAIN qs THEN [qs EXCEPT ![quest_id].status = status] ELSE qs

(* the challenge ids whose rows reference the quest *)
ChallengesOf(chs, quest_id) == {c \in DOMAIN chs : chs[c].quest_id = quest_id}

(* INSERT OR REPLACE of the proposal's challenge rows, in list order *)
RECURSIVE InsertChallenges(_, _, _, _)
InsertChallenges(chs, session_id, quest_id, list) ==
    IF list = <<>> THEN chs
    ELSE LET challenge == Head(list)
             row == [session_id |-> session_id, quest_id |-> quest_id,
                     type |-> challenge.type, dc |-> challenge.dc,
                     completed |-> FALSE, result |-> NULL]
         IN  InsertChallenges(Put(chs, challenge.id, row), session_id, quest_id, Tail(list))

add_quest_row(session_id, quest_data) ==
    [session_id |-> session_id,
     giver_npc |-> quest_data.giver_npc,
     status |-> Get(quest_data, "status", "offered"),
     accept_response |-> Get(quest_data, "accept_response", "I'm glad you accepted."),
     refuse_response |-> Get(quest_data, "refuse_response", "That is unfortunate.")]

----------------------------------------------------------------------------
(* resolve_challenge: the resolution record, the relationship event and    *)
(* the aggregation of the quest's status                                   *)

(* f"{severity}_failure" *)
FailureKey(severity) ==
    CASE severity = "minor" -> "minor_failure"
      [] severity = "major" -> "major_failure"
      [] severity = "severe" -> "severe_failure"
      [] severity = "critical" -> "critical_failure"
      [] OTHER -> "unknown_failure"

(* variant: the stat left out of a synthesized total *)
auto_result_no_bonus(challenge, stat_bonus, auto_check) ==
    LET success == auto_check.outcome = "auto_success"
        roll == IF success THEN 20 ELSE 1
        total == roll
    IN  [success |-> success, roll |-> roll, stat_bonus |-> stat_bonus, total |-> total,
         dc |-> challenge.dc, margin |-> total - challenge.dc,
         challenge_type |-> challenge.type,
         critical_success |-> FALSE, critical_failure |-> FALSE,
         auto_resolved |-> TRUE, narrative |-> auto_check.narrative,
         severity |-> IF success THEN "minor" ELSE "impossible"]

auto_result(challenge, stat_bonus, auto_check) ==
    LET success == auto_check.outcome = "auto_success"
        roll == IF success THEN 20 ELSE 1
        total == roll + stat_bonus
    IN  [success |-> success, roll |-> roll, stat_bonus |-> stat_bonus, total |-> total,
         dc |-> challenge.dc, margin |-> total - challenge.dc,
         challenge_type |-> challenge.type,
         critical_success |-> FALSE, critical_failure |-> FALSE,
         auto_resolved |-> TRUE, narrative |-> auto_check.narrative,
         severity |-> IF success THEN "minor" ELSE "impossible"]

(* variant: no critical-failure override *)
rolled_success_no_override(roll, total, dc) == total >= dc

rolled_success(roll, total, dc) ==
    IF roll = 1 THEN FALSE ELSE total >= dc

rolled_result(challenge, stat_bonus, roll) ==
    LET total == roll + stat_bonus
        success == rolled_success(roll, total, challenge.dc)
        severity == IF ~success
                    THEN calculate_failure_severity(total, challenge.dc, roll = 1)
                    ELSE "success"
    IN  [success |-> success, roll |-> roll, stat_bonus |-> stat_bonus, total |-> total,
         dc |-> challenge.dc, margin |-> total - challenge.dc,
         challenge_type |-> challenge.type,
         critical_success |-> roll = 20, critical_failure |-> roll = 1,
         severity |-> severity]

(* the stat the resolver adds to the roll *)
stat_bonus_of(ps, session_id, challenge) ==
    Get(get_player_stats(ps, session_id), Lower(challenge.type), 0)

(* variant: the auto-resolution check skipped, every challenge rolled *)
resolution_always_rolls(ps, session_id, challenge, roll) ==
    rolled_result(challenge, stat_bonus_of(ps, session_id, challenge), roll)

(* the record resolve_challenge builds for the challenge row *)
resolution(ps, session_id, challenge, roll) ==
    LET stat_bonus == stat_bonus_of(ps, session_id, challenge)
        auto_check == should_require_roll(challenge.dc, stat_bonus)
    IN  IF ~auto_check.requires_roll
        THEN auto_result(challenge, stat_bonus, auto_check)
        ELSE rolled_result(challenge, stat_bonus, roll)

(* the sessions table after the relationship update of resolve_challenge *)
resolution_relationship(st, qs, session_id, challenge, result, t) ==
    LET giver_name == get_quest_giver(qs, session_id, challenge.quest_id) IN
    IF "auto_resolved" \in DOMAIN result
    THEN IF result.success
         THEN update_relationship(st, session_id, giver_name, Event("auto_success"), t)
         ELSE st
    ELSE IF giver_name # None
         THEN IF result.success
              THEN update_relationship(st, session_id, giver_name, Event("roll_success"), t)
              ELSE update_relationship(st, session_id, giver_name,
                                       Event(FailureKey(result.severity)), t)
         ELSE st

(* UPDATE challenges SET completed = ?, result = ? WHERE id = ? *)
store_result(chs, challenge_id, result) ==
    [chs EXCEPT ![challenge_id].completed = TRUE, ![challenge_id].result = <<result>>]

(* SELECT COUNT( * ) FROM challenges WHERE quest_id = ? AND completed = 0 *)
remaining(chs, quest_id) ==
    Cardinality({c \in ChallengesOf(chs, quest_id) : ~chs[c].completed})

(* variant: a quest fails only when every challenge failed *)
any_failure_all(chs, quest_id) ==
    \A c \in ChallengesOf(chs, quest_id) :
        chs[c].result # NULL /\ ~chs[c].result[1].success

any_failure(chs, quest_id) ==
    \E c \in ChallengesOf(chs, quest_id) :
        chs[c].result # NULL /\ ~chs[c].result[1].success

(* the quests table after the completion check of resolve_challenge *)
aggregate(qs, chs, quest_id) ==
    IF remaining(chs, quest_id) = 0
    THEN SetStatusById(qs, quest_id,
                       IF any_failure(chs, quest_id) THEN "failed" ELSE "completed")
    ELSE qs

----------------------------------------------------------------------------
(* Read models: get_active_quests and get_quest_context_for_npc. The lists  *)
(* they return are modelled as sets: the SELECTs give no ORDER BY.          *)

(* the quests of the session the read models list *)
ListedQuests(qs, session_id) ==
    {q \in DOMAIN qs : qs[q].session_id = session_id
                       /\ qs[q].status \in {"active", "completed", "failed"}}

(* dict(row) of a challenge row *)
ChallengeDict(chs, c) == Update([id |-> c], chs[c])

(* the stat the previews compare with the dc *)
preview_stat(ps, session_id, challenge) ==
    Get(get_player_stats(ps, session_id), Lower(challenge.type), 10)

active_challenge(ps, session_id, status, challenge) ==
    LET auto_check == should_require_roll(challenge.dc,
                                          preview_stat(ps, session_id, challenge))
    IN  IF status = "active" /\ ~challenge.completed /\ ~auto_check.requires_roll
        THEN Update(challenge, [auto_result |-> auto_check.outcome,
                                auto_narrative |-> auto_check.narrative])
        ELSE challenge

context_challenge(ps, session_id, status, challenge) ==
    IF status = "active" /\ ~challenge.completed
    THEN Update(challenge, should_require_roll(challenge.dc,
                                               preview_stat(ps, session_id, challenge)))
    ELSE challenge

get_active_quests(qs, chs, ps, session_id) ==
    {Update(Update([id |-> q], qs[q]),
            [challenges |-> {active_challenge(ps, session_id, qs[q].status,
                                              ChallengeDict(chs, c)) :
                                 c \in ChallengesOf(chs, q)}]) :
         q \in ListedQuests(qs, session_id)}

get_quest_context_for_npc(qs, chs, ps, session_id) ==
    {Update(Update([id |-> q], qs[q]),
            [challenges |-> {context_challenge(ps, session_id, qs[q].status,
                                               ChallengeDict(chs, c)) :
                                 c \in ChallengesOf(chs, q)}]) :
         q \in ListedQuests(qs, session_id)}

----------------------------------------------------------------------------
(* Reward economy: the tier and resource-level tables, get_tier_config,    *)
(* calculate_quest_rewards, validate_quest_rewards and                     *)
(* validate_llm_quest_rewards of gemini_service.py                         *)

VALUE_TIERS ==
    [tier_0_trivial |->
         [xp |-> <<5, 15>>, base_reward |-> "goodwill", difficulty_dc |-> <<5, 8>>,
          gold |-> <<1, 5>>, items |-> <<"rusty_dagger", "stale_bread", "pebble">>],
     tier_1_minor |->
         [xp |-> <<25, 50>>, base_reward |-> "modest", difficulty_dc |-> <<10, 12>>,
          gold |-> <<10, 25>>,
          items |-> <<"iron_sword", "leather_armor", "healing_potion">>],
     tier_2_standard |->
         [xp |-> <<100, 200>>, base_reward |-> "fair", difficulty_dc |-> <<15, 17>>,
          gold |-> <<50, 100>>,
          items |-> <<"steel_sword", "chainmail", "quality_healing_potion">>],
     tier_3_significant |->
         [xp |-> <<300, 500>>, base_reward |-> "generous", difficulty_dc |-> <<18, 20>>,
          gold |-> <<150, 300>>,
          items |-> <<"enchanted_blade", "plate_armor", "rare_elixir">>],
     tier_4_major |->
         [xp |-> <<750, 1500>>, base_reward |-> "lavish", difficulty_dc |-> <<22, 25>>,
          gold |-> <<500, 1000>>,
          items |-> <<"legendary_weapon", "artifact_armor", "phoenix_down">>],
     tier_5_legendary |->
         [xp |-> <<2000, 5000>>, base_reward |-> "legendary",
          difficulty_dc |-> <<26, 30>>, gold |-> <<2000, 5000>>,
          items |-> <<"god_killer", "world_shaper">>]]

TIER_MAPPING ==
    [trivial |-> "tier_0_trivial", average |-> "tier_1_minor",
     tough |-> "tier_2_standard", elite |-> "tier_3_significant",
     boss |-> "tier_4_major", legendary |-> "tier_5_legendary"]

(* variant: the destitute have a little gold to give *)
NPC_RESOURCE_LEVELS_destitute_pays ==
    [destitute |->
         [can_offer |-> <<"gratitude", "information", "future_favor">>,
          cannot_offer |-> <<"gold", "items", "property">>,
          gold_range |-> <<1, 2>>],
     poor |->
         [can_offer |-> <<"food", "simple_tools", "shelter", "minor_favor">>,
          gold_range |-> <<1, 10>>, item_tier |-> "common"],
     modest |->
         [can_offer |-> <<"modest_gold", "quality_goods", "trade_services">>,
          gold_range |-> <<10, 50>>, item_tier |-> "common_to_uncommon"],
     comfortable |->
         [can_offer |-> <<"good_gold", "fine_items", "connections", "property_access">>,
          gold_range |-> <<50, 200>>, item_tier |-> "uncommon_to_rare"],
     wealthy |->
         [can_offer |-> <<"substantial_gold", "rare_items", "political_favors",
                          "land_grants">>,
          gold_range |-> <<200, 1000>>, item_tier |-> "rare_to_epic"],
     opulent |->
         [can_offer |-> <<"vast_gold", "legendary_items", "titles", "armies">>,
          gold_range |-> <<1000, 10000>>, item_tier |-> "epic_to_legendary"]]

NPC_RESOURCE_LEVELS ==
    [destitute |->
         [can_offer |-> <<"gratitude", "information", "future_favor">>,
          cannot_offer |-> <<"gold", "items", "property">>],
     poor |->
         [can_offer |-> <<"food", "simple_tools", "shelter", "minor_favor">>,
          gold_range |-> <<1, 10>>, item_tier |-> "common"],
     modest |->
         [can_offer |-> <<"modest_gold", "quality_goods", "trade_services">>,
          gold_range |-> <<10, 50>>, item_tier |-> "common_to_uncommon"],
     comfortable |->
         [can_offer |-> <<"good_gold", "fine_items", "connections", "property_access">>,
          gold_range |-> <<50, 200>>, item_tier |-> "uncommon_to_rare"],
     wealthy |->
         [can_offer |-> <<"substantial_gold", "rare_items", "political_favors",
                          "land_grants">>,
          gold_range |-> <<200, 1000>>, item_tier |-> "rare_to_epic"],
     opulent |->
         [can_offer |-> <<"vast_gold", "legendary_items", "titles", "armies">>,
          gold_range |-> <<1000, 10000>>, item_tier |-> "epic_to_legendary"]]

(* x in list *)
Contains(list, x) == \E i \in DOMAIN list : list[i] = x

(* TIER_MAPPING.get(tier_name.lower(), tier_name.lower()) *)
mapped_tier(tier_name) == Get(TIER_MAPPING, Lower(tier_name), Lower(tier_name))

(* variant: the legacy names are not translated *)
get_tier_config_unmapped(tier_name) ==
    Get(VALUE_TIERS, Lower(tier_name), VALUE_TIERS["tier_1_minor"])

get_tier_config(tier_name) ==
    Get(VALUE_TIERS, mapped_tier(tier_name), VALUE_TIERS["tier_1_minor"])

(* NPC_RESOURCE_LEVELS.get(npc_profile.get("resource_level", "poor"), ...["poor"]) *)
resource_level_of(npc_profile) ==
    Get(NPC_RESOURCE_LEVELS, Get(npc_profile, "resource_level", "poor"),
        NPC_RESOURCE_LEVELS["poor"])

(* variant: every tier scales gold alike *)
tier_multipliers_flat ==
    [tier_0_trivial |-> 2, tier_1_minor |-> 2, tier_2_standard |-> 2,
     tier_3_significant |-> 2, tier_4_major |-> 2, tier_5_legendary |-> 2]

(* tier_multipliers of calculate_quest_rewards, in halves: 0.5 is 1, 16.0 is 32 *)
tier_multipliers ==
    [tier_0_trivial |-> 1, tier_1_minor |-> 2, tier_2_standard |-> 4,
     tier_3_significant |-> 8, tier_4_major |-> 16, tier_5_legendary |-> 32]

(* The product value * (1.0 + (relationship - 50) / 200) is computed in     *)
(* IEEE-754 doubles. Where the exact product is a whole number the double  *)
(* can lie just below it, and int() then yields one less. These are the    *)
(* relationships and the values (in halves) at which that happens, for     *)
(* every XP draw of every tier and every end of a gold range scaled by a   *)
(* tier multiplier.                                                        *)
FloatShortfall(relationship) ==
    CASE relationship = 11 ->
             {2000, 2400, 4000, 4400, 4800, 7600, 8000, 8400, 8800, 9200,
             9600, 10000, 16000, 20000, 32000, 40000, 80000, 160000,
             320000}
      [] relationship = 13 ->
             {2400, 4400, 4800, 8800, 9200, 9600, 10000, 20000, 40000,
             80000, 160000, 320000}
      [] relationship = 36 ->
             {1000, 2000, 2200, 4000, 4200, 4400, 7400, 7600, 7800, 8000,
             8200, 8400, 8600, 8800, 16000, 32000}
      [] relationship = 38 ->
             {4300, 8600, 8700}
      [] relationship = 51 ->
             {400, 800, 1600, 2000, 2400, 2800, 3200, 4000, 4400, 4800,
             5200, 5600, 6000, 6400, 6800, 7200, 7600, 8000, 8800, 9200,
             9600, 10000, 16000, 20000, 32000, 40000, 80000, 160000,
             320000}
      [] relationship = 53 ->
             {400, 800, 1600, 2000, 2400, 2800, 3200, 4000, 4800, 5200,
             5600, 6000, 6400, 6800, 7200, 7600, 8000, 9600, 10000, 16000,
             20000, 32000, 40000, 80000, 160000, 320000}
      [] relationship = 55 ->
             {240, 400, 720, 800, 880, 960, 1520, 1600, 1680, 1760, 1840,
             1920, 2640, 2720, 2800, 2880, 2960, 3200, 5200, 5280, 5360,
             5440, 5520, 5600, 5680, 5760, 5840, 5920, 6000, 6080, 6160,
             6240, 6320, 6400, 6480, 6560, 6640, 6720, 6800, 6880, 6960,
             7040, 7120, 7200, 7280, 7360, 7440, 7520, 7600, 7680, 7760,
             7840, 7920}
      [] relationship = 57 ->
             {400, 800, 1600, 3200, 6000, 6400, 6800, 7200, 7600}
      [] relationship = 59 ->
             {6800, 7200, 7600}
      [] relationship = 61 ->
             {7600}
      [] relationship = 76 ->
             {200, 400, 600, 800, 1600, 1800, 2200, 2400, 2600, 2800, 3000,
             3200, 4400, 4600, 4800, 5000, 5200, 5400, 5600, 5800, 6000,
             6200, 6400, 6600, 6800, 7000, 7200, 8600, 8800, 9000, 9200,
             9400, 9600, 9800, 10000, 20000, 40000, 80000, 160000, 320000}
      [] relationship = 80 ->
             {200, 360, 400, 680, 720, 760, 800, 840, 880, 1520, 1560,
             1600, 1640, 1680, 1720, 1760, 2600, 2640, 2680, 2720, 2760,
             2800, 2840, 2880, 2920, 2960, 3000, 3200, 5160, 5200, 5240,
             5280, 5320, 5360, 5400, 5440, 5480, 5520, 5560, 5600, 5640,
             5680, 5720, 5760, 5800, 5840, 5880, 5920, 5960, 6000, 6040,
             6080, 6120, 6160, 6200, 6240, 6280, 6320, 6360, 6400, 6440,
             6480, 6520, 6560, 6600, 6640, 6680, 6720, 6760, 6800, 6840,
             6880, 6920, 6960, 7000, 7040, 7080, 7120}
      [] relationship = 82 ->
             {50, 100, 200, 400, 750, 800, 850, 1500, 1550, 1600, 1650,
             1700, 1750, 2850, 2900, 2950, 3000, 3200, 5700, 5750, 5800,
             5850, 5900, 5950, 6000, 6050, 6100, 6150, 6200, 6250, 6300,
             6350, 6400, 6450, 6500, 6550, 6600, 6650, 6700, 6750, 6800,
             6850, 6900, 6950, 7000, 7050}
      [] relationship = 84 ->
             {6600, 6800, 7000}
      [] relationship = 97 ->
             {400, 800, 1600, 2000, 2400, 2800, 3200, 4000, 4400, 4800,
             5200, 5600, 6000, 6400, 7600, 8000, 8400, 8800, 9200, 9600,
             10000, 16000, 20000, 32000, 40000, 80000, 160000, 320000}
      [] OTHER -> {}

(* int(value * relationship_multiplier), the value given in halves *)
scaled_int(halves, relationship) ==
    LET exact == (halves * (150 + relationship)) \div 400 IN
    IF halves \in FloatShortfall(relationship) THEN exact - 1 ELSE exact

(* "gold" in resource_level["can_offer"] or "gold_range" in resource_level *)
offers_gold(resource_level) ==
    Contains(resource_level.can_offer, "gold") \/ "gold_range" \in DOMAIN resource_level

(* min_gold and max_gold of calculate_quest_rewards *)
gold_bounds(quest_tier, npc_profile, relationship) ==
    LET gold_range == Get(resource_level_of(npc_profile), "gold_range", <<0, 0>>)
        tier_multiplier == Get(tier_multipliers, mapped_tier(quest_tier), 2)
    IN  <<scaled_int(gold_range[1] * tier_multiplier, relationship),
          scaled_int(gold_range[2] * tier_multiplier, relationship)>>

(* the rewards returned when random.randint yields xp and then amount *)
calculate_quest_rewards(quest_tier, npc_profile, relationship, xp, amount) ==
    LET resource_level == resource_level_of(npc_profile)
        bounds == gold_bounds(quest_tier, npc_profile, relationship)
        name == Get(npc_profile, "name", "Unknown")
        gold == IF offers_gold(resource_level) /\ bounds[2] > 0
                THEN <<[type |-> "gold", amount |-> amount]>> ELSE <<>>
        item == IF Contains(resource_level.can_offer, "items")
                THEN <<[type |-> "item",
                        tier |-> Get(resource_level, "item_tier", "common"),
                        source |-> name]>>
                ELSE <<>>
        information == IF Contains(resource_level.can_offer, "information")
                       THEN <<[type |-> "information", value |-> "lore_or_quest_hook"]>>
                       ELSE <<>>
        favor == IF Contains(resource_level.can_offer, "future_favor")
                 THEN <<[type |-> "favor_token", redeemable_with |-> name]>>
                 ELSE <<>>
    IN  [xp |-> scaled_int(2 * xp, relationship),
         material_rewards |-> gold \o item \o information \o favor]

(* the quest_data validate_quest_rewards returns *)
validate_quest_rewards(quest_data) ==
    LET tier_raw == Lower(Get(quest_data, "tier", "average"))
        tier == Get(TIER_MAPPING, tier_raw, "tier_1_minor")
        tier_rules == Get(VALUE_TIERS, tier, VALUE_TIERS["tier_1_minor"])
        gold_reward == Get(Get(quest_data, "rewards", EmptyDict), "gold", 0)
        capped == tier_rules.gold[2]
    IN  IF gold_reward > capped
        THEN Put(quest_data, "rewards",
                 Put(Get(quest_data, "rewards", EmptyDict), "gold", capped))
        ELSE quest_data

(* the can_offer entries that contain the text "gold" *)
GoldOffers == {"gold", "modest_gold", "good_gold", "substantial_gold", "vast_gold"}

(* variant: every resource level passes the capability test *)
can_offer_gold_always(resource_level_config) == TRUE

can_offer_gold(resource_level_config) ==
    \/ "gold_range" \in DOMAIN resource_level_config
    \/ \E i \in DOMAIN resource_level_config.can_offer :
           resource_level_config.can_offer[i] \in GoldOffers

(* the largest amount among the calculated gold rewards, 0 when none *)
RECURSIVE calculated_max_gold(_)
calculated_max_gold(material_rewards) ==
    IF material_rewards = <<>> THEN 0
    ELSE LET r == Head(material_rewards)
             rest == calculated_max_gold(Tail(material_rewards))
         IN  IF Get(r, "type", None) = "gold" THEN Max(rest, Get(r, "amount", 0))
             ELSE rest

(* variant: twice the calculated amount is let through *)
gold_too_high_double(offered_gold, max_gold_calculated) ==
    offered_gold > max_gold_calculated * 2

(* offered_gold > max_gold * 1.5 *)
gold_too_high(offered_gold, max_gold_calculated) ==
    2 * offered_gold > 3 * max_gold_calculated

(* the list of violations validate_llm_quest_rewards returns *)
validate_llm_quest_rewards(llm_output, npc_profile, calculated_rewards) ==
    LET resource_level_name == Get(npc_profile, "resource_level", "poor")
        resource_level_config == resource_level_of(npc_profile)
        quest_data == Get(llm_output, "quest_offered", EmptyDict)
        rewards == Get(quest_data, "rewards", EmptyDict)
        offered_gold == Get(rewards, "gold", 0)
        offered_items == Get(rewards, "items", <<>>)
        name == Get(npc_profile, "name", "NPC")
        calculated == calculated_max_gold(Get(calculated_rewards, "material_rewards", <<>>))
        gold_errors ==
            IF offered_gold > 0
            THEN IF ~can_offer_gold(resource_level_config)
                 THEN <<[text |-> "cannot offer gold.", name |-> name,
                         resource_level |-> resource_level_name]>>
                 ELSE IF gold_too_high(offered_gold, calculated)
                      THEN <<[text |-> "Gold amount too high", offered |-> offered_gold,
                              max_gold |-> calculated]>>
                      ELSE <<>>
            ELSE <<>>
        item_errors ==
            IF offered_items # <<>>
               /\ ~Contains(resource_level_config.can_offer, "items")
               /\ ~Contains(resource_level_config.can_offer, "valuable_items")
            THEN <<[text |-> "cannot offer items.", name |-> name,
                    resource_level |-> resource_level_name]>>
            ELSE <<>>
    IN  IF DOMAIN quest_data = {} THEN <<>> ELSE gold_errors \o item_errors

----------------------------------------------------------------------------
(* validate_quest_output of gemini_service.py: the required-field, DC and   *)
(* type checks on a quest proposal. A dict is a function on the keys it has. *)

required_quest == <<"id", "description", "challenges", "accept_response", "refuse_response">>
required_challenge == <<"id", "type", "dc", "description">>
dc_map == [easy |-> 10, medium |-> 15, hard |-> 20, heroic |-> 25]
valid_types == <<"strength", "dexterity", "intelligence", "charisma">>

(* one "Missing required field" error per field of the list the dict lacks *)
missing_fields(required, d, text) ==
    LET missing == SelectSeq(required, LAMBDA field : field \notin DOMAIN d)
    IN  [i \in 1..Len(missing) |-> [text |-> text, field |-> missing[i]]]

(* difficulty and dc and dc != dc_map.get(difficulty) *)
dc_mismatch(challenge) ==
    /\ "difficulty" \in DOMAIN challenge
    /\ challenge.difficulty # ""
    /\ "dc" \in DOMAIN challenge
    /\ challenge.dc # 0
    /\ \/ challenge.difficulty \notin DOMAIN dc_map
       \/ challenge.dc # dc_map[challenge.difficulty]

(* challenge.get("type") not in valid_types *)
invalid_type(challenge) ==
    \/ "type" \notin DOMAIN challenge
    \/ ~Contains(valid_types, challenge.type)

(* the errors of one pass of the loop over the challenges *)
challenge_errors(challenge) ==
    (IF dc_mismatch(challenge)
     THEN <<[text |-> "DC doesn't match difficulty level", dc |-> challenge.dc,
             difficulty |-> challenge.difficulty]>>
     ELSE <<>>)
    \o (IF invalid_type(challenge)
        THEN <<[text |-> "Invalid challenge type",
                type |-> Get(challenge, "type", None)]>>
        ELSE <<>>)
    \o missing_fields(required_challenge, challenge, "Missing required field in challenge")

RECURSIVE challenges_errors(_)
challenges_errors(list) ==
    IF list = <<>> THEN <<>>
    ELSE challenge_errors(Head(list)) \o challenges_errors(Tail(list))

validate_quest_output(quest_data) ==
    IF DOMAIN quest_data = {}
    THEN <<[text |-> "Quest data is empty or None"]>>
    ELSE missing_fields(required_quest, quest_data, "Missing required field in quest")
         \o (IF "challenges" \in DOMAIN quest_data
             THEN challenges_errors(quest_data.challenges)
             ELSE <<>>)

----------------------------------------------------------------------------
(* Rewards the rules support, and process_metadata                          *)

OpulentGoldMax == 10000           \* NPC_RESOURCE_LEVELS["opulent"]["gold_range"][1]
LegendaryTierMultiplier == 16     \* tier_multipliers["tier_5_legendary"]
LegendaryGoldCap == 5000          \* VALUE_TIERS["tier_5_legendary"]["gold"][1]

(* max_gold of calculate_quest_rewards: int(gold_range[1] * tier_multiplier *  *)
(* (1.0 + (relationship - 50) / 200))                                          *)
max_gold(gold_range_max, tier_multiplier, relationship) ==
    scaled_int(2 * gold_range_max * tier_multiplier, relationship)

(* the largest gold amount calculate_quest_rewards can draw or               *)
(* validate_quest_rewards can let through                                    *)
MaxRewardGold ==
    Max(LegendaryGoldCap, max_gold(OpulentGoldMax, LegendaryTierMultiplier, 100))

(* list.remove(item): the first occurrence *)
RECURSIVE RemoveFirst(_, _)
RemoveFirst(list, item) ==
    IF list = <<>> THEN <<>>
    ELSE IF Head(list) = item THEN Tail(list)
    ELSE <<Head(list)>> \o RemoveFirst(Tail(list), item)

RECURSIVE add_items(_, _)
add_items(inventory, items) ==
    IF items = <<>> THEN inventory
    ELSE add_items(Append(inventory, Head(items)), Tail(items))

RECURSIVE remove_items(_, _)
remove_items(inventory, items) ==
    IF items = <<>> THEN inventory
    ELSE remove_items(RemoveFirst(inventory, Head(items)), Tail(items))

(* the session row after process_metadata *)
process_metadata(row, metadata) ==
    LET stats == Get(metadata, "player_stats", EmptyDict)
        row1 == IF "health" \in DOMAIN stats
                THEN [row EXCEPT !.health = stats.health] ELSE row
        row2 == IF "gold" \in DOMAIN stats
                THEN [row1 EXCEPT !.gold = stats.gold] ELSE row1
        row3 == [row2 EXCEPT !.inventory =
                     add_items(@, Get(metadata, "inventory_add", <<>>))]
    IN  [row3 EXCEPT !.inventory =
            remove_items(@, Get(metadata, "inventory_remove", <<>>))]

----------------------------------------------------------------------------
(* Entity stubs: process_involved_entities. The table's primary key is the *)
(* id column alone; the loop's SELECT looks for the id in the session.     *)

WorldLocations == {"town"}            \* locations of the loaded game world

(* game_world.get_character(entity_id) or game_world.get_location(entity_id) *)
KnownInWorld(entity_id) == entity_id \in WorldCharacters \cup WorldLocations

(* entity_id.replace("_", " ").title() on the ids the model uses *)
stub_name(entity_id) ==
    CASE entity_id = "new_entity_1" -> "New Entity 1"
      [] entity_id = "new_entity_2" -> "New Entity 2"
      [] entity_id = "npc_a" -> "Npc A"
      [] entity_id = "npc_b" -> "Npc B"
      [] entity_id = "town" -> "Town"

entity_stub_row(session_id, entity_id) ==
    [session_id |-> session_id, name |-> stub_name(entity_id), type |-> "unknown",
     status |-> "mentioned", needs_expansion |-> TRUE]

(* the loop over entities inside one transaction: the table as the cursor  *)
(* sees it, and whether an INSERT hit the primary key                      *)
RECURSIVE insert_stubs(_, _, _)
insert_stubs(stubs, session_id, entities) ==
    IF entities = <<>> THEN [stubs |-> stubs, raised |-> FALSE]
    ELSE LET entity_id == Head(entities) IN
         IF KnownInWorld(entity_id)
         THEN insert_stubs(stubs, session_id, Tail(entities))
         ELSE IF entity_id \in DOMAIN stubs /\ stubs[entity_id].session_id = session_id
         THEN insert_stubs(stubs, session_id, Tail(entities))
         ELSE IF entity_id \in DOMAIN stubs
         THEN [stubs |-> stubs, raised |-> TRUE]
         ELSE insert_stubs(Put(stubs, entity_id, entity_stub_row(session_id, entity_id)),
                           session_id, Tail(entities))

(* the committed table and the outcome: sqlite3.IntegrityError leaves the  *)
(* method before conn.commit(), so none of the call's inserts is kept      *)
process_involved_entities(stubs, session_id, entities) ==
    LET loop == insert_stubs(stubs, session_id, entities) IN
    IF loop.raised THEN [stubs |-> stubs, ret |-> "IntegrityError"]
    ELSE [stubs |-> loop.stubs, ret |-> None]

----------------------------------------------------------------------------
(* Operations. Each action is one call of the method of the same name.     *)

Call(op, args, ret, draws) ==
    /\ calls_left > 0
    /\ calls_left' = calls_left - 1
    /\ last' = [op |-> op, args |-> args, ret |-> ret, draws |-> draws]

NoCall == [op |-> "none", args |-> <<>>, ret |-> <<>>, draws |-> <<>>]

CreateSession(session_id) ==
    /\ Call("create_session", <<session_id>>, None, <<>>)
    /\ IF session_exists(npc_states, session_id)
       THEN UNCHANGED <<npc_states, player_stats, session_data>>
       ELSE /\ npc_states' = Put(npc_states, session_id, InitialNpcStates)
            /\ player_stats' = Put(player_stats, session_id, DefaultStats)
            /\ session_data' = Put(session_data, session_id, InitialSessionData)
    /\ UNCHANGED <<quests, challenges, now, input, entity_stubs, threads>>

AddQuest(session_id, quest_data) ==
    /\ Call("add_quest", <<session_id, quest_data>>, None, <<>>)
    /\ quests' = Put(quests, quest_data.id, add_quest_row(session_id, quest_data))
    /\ challenges' = IF "challenges" \in DOMAIN quest_data
                     THEN InsertChallenges(challenges, session_id, quest_data.id,
                                           quest_data.challenges)
                     ELSE challenges
    /\ UNCHANGED <<npc_states, player_stats, now, input,
                    entity_stubs, session_data, threads>>

(* accept_quest and refuse_quest differ in the column read, the status     *)
(* written and the event applied                                           *)
DecideQuest(op, session_id, quest_id, column, default_text, status, event) ==
    LET row == QuestRow(quests, session_id, quest_id)
        response_text == IF row # NULL /\ row[1][column] # "" THEN row[1][column]
                         ELSE default_text
        quests1 == SetStatusInSession(quests, session_id, quest_id, status)
        giver == get_quest_giver(quests1, session_id, quest_id)
    IN  /\ Call(op, <<session_id, quest_id>>, response_text, <<>>)
        /\ quests' = quests1
        /\ npc_states' = IF giver # None
                         THEN update_relationship(npc_states, session_id, giver,
                                                  Event(event), now)
                         ELSE npc_states
        /\ UNCHANGED <<player_stats, challenges, now, input,
                    entity_stubs, session_data, threads>>

(* variant: the quest accepted without the relationship event *)
AcceptQuest_no_event(session_id, quest_id) ==
    /\ Call("accept_quest", <<session_id, quest_id>>,
            IF QuestRow(quests, session_id, quest_id) # NULL
            THEN quests[quest_id].accept_response ELSE "Quest accepted.", <<>>)
    /\ quests' = SetStatusInSession(quests, session_id, quest_id, "active")
    /\ UNCHANGED <<npc_states, player_stats, challenges, now, input,
                    entity_stubs, session_data, threads>>

AcceptQuest(session_id, quest_id) ==
    DecideQuest("accept_quest", session_id, quest_id, "accept_response",
                "Quest accepted.", "active", "quest_accepted")

RefuseQuest(session_id, quest_id) ==
    DecideQuest("refuse_quest", session_id, quest_id, "refuse_response",
                "Quest refused.", "refused", "quest_refused")

(* variant: only a completed or failed quest is closed *)
ResolveQuest_dead_only(session_id, quest_id) ==
    /\ Call("resolve_quest", <<session_id, quest_id>>, None, <<>>)
    /\ quests' = IF QuestRow(quests, session_id, quest_id) # NULL
                    /\ quests[quest_id].status \in {"completed", "failed"}
                 THEN SetStatusInSession(quests, session_id, quest_id, "resolved")
                 ELSE quests
    /\ UNCHANGED <<npc_states, player_stats, challenges, now, input,
                    entity_stubs, session_data, threads>>

ResolveQuest(session_id, quest_id) ==
    /\ Call("resolve_quest", <<session_id, quest_id>>, None, <<>>)
    /\ quests' = SetStatusInSession(quests, session_id, quest_id, "resolved")
    /\ UNCHANGED <<npc_states, player_stats, challenges, now, input,
                    entity_stubs, session_data, threads>>

(* variant: the session filter forgotten *)
DeadQuests_any_session(qs, session_id) ==
    {q \in DOMAIN qs : qs[q].status \in {"completed", "failed"}}

DeadQuests(qs, session_id) ==
    {q \in DOMAIN qs : qs[q].session_id = session_id
                       /\ qs[q].status \in {"completed", "failed"}}

ClearDeadQuests(session_id) ==
    LET dead == DeadQuests(quests, session_id) IN
    /\ Call("clear_dead_quests", <<session_id>>, Cardinality(dead), <<>>)
    /\ quests' = [q \in DOMAIN quests |->
                     IF q \in dead THEN [quests[q] EXCEPT !.status = "resolved"]
                     ELSE quests[q]]
    /\ UNCHANGED <<npc_states, player_stats, challenges, now, input,
                    entity_stubs, session_data, threads>>

ResolveChallenge(session_id, challenge_id, roll) ==
    IF ~(challenge_id \in DOMAIN challenges
         /\ challenges[challenge_id].session_id = session_id)
    THEN /\ Call("resolve_challenge", <<session_id, challenge_id>>,
                 [error |-> "Challenge not found"], <<>>)
         /\ UNCHANGED <<npc_states, player_stats, quests, challenges, now, input,
                    entity_stubs, session_data, threads>>
    ELSE LET challenge == challenges[challenge_id]
             result == resolution(player_stats, session_id, challenge, roll)
             challenges1 == store_result(challenges, challenge_id, result)
         IN  /\ Call("resolve_challenge", <<session_id, challenge_id>>, result,
                     IF "auto_resolved" \in DOMAIN result THEN <<>> ELSE <<roll>>)
             /\ npc_states' = resolution_relationship(npc_states, quests, session_id,
                                                      challenge, result, now)
             /\ challenges' = challenges1
             /\ quests' = aggregate(quests, challenges1, challenge.quest_id)
             /\ UNCHANGED <<player_stats, now, input,
                    entity_stubs, session_data, threads>>

(* variant: the previews cached in the challenge rows *)
GetActiveQuests_caching(session_id) ==
    /\ Call("get_active_quests", <<session_id>>,
            get_active_quests(quests, challenges, player_stats, session_id), <<>>)
    /\ challenges' = [c \in DOMAIN challenges |->
                         IF challenges[c].quest_id \in ListedQuests(quests, session_id)
                         THEN [challenges[c] EXCEPT !.completed = TRUE]
                         ELSE challenges[c]]
    /\ UNCHANGED <<npc_states, player_stats, quests, now, input,
                    entity_stubs, session_data, threads>>

GetActiveQuests(session_id) ==
    /\ Call("get_active_quests", <<session_id>>,
            get_active_quests(quests, challenges, player_stats, session_id), <<>>)
    /\ UNCHANGED <<npc_states, player_stats, quests, challenges, now, input,
                    entity_stubs, session_data, threads>>

GetQuestContextForNpc(session_id) ==
    /\ Call("get_quest_context_for_npc", <<session_id>>,
            get_quest_context_for_npc(quests, challenges, player_stats, session_id), <<>>)
    /\ UNCHANGED <<npc_states, player_stats, quests, challenges, now, input,
                    entity_stubs, session_data, threads>>

ProcessMetadata(session_id, metadata) ==
    /\ Call("process_metadata", <<session_id, metadata>>, None, <<>>)
    /\ session_data' = IF metadata = EmptyDict \/ session_id \notin DOMAIN session_data
                       THEN session_data
                       ELSE [session_data EXCEPT ![session_id] =
                                process_metadata(@, metadata)]
    /\ UNCHANGED <<npc_states, player_stats, quests, challenges, now, input,
                    entity_stubs, threads>>

----------------------------------------------------------------------------
(* The quest ledger: every operation, from an empty database *)

ChallengeSpec(id, type, dc) == [id |-> id, type |-> type, dc |-> dc]

(* stat 10 against these: auto-success, a roll, auto-failure *)
LedgerDCs == {5, 15, 25}

LedgerChallengeLists ==
    {<<>>}
    \cup {<<ChallengeSpec("c1", "strength", dc)>> : dc \in LedgerDCs}
    \cup {<<ChallengeSpec("c1", "strength", 15), ChallengeSpec("c2", "strength", 15)>>}

GiverOf(quest_id) == IF quest_id = "q1" THEN "npc_a" ELSE "npc_b"

LedgerProposals ==
    {[id |-> q, giver_npc |-> GiverOf(q), challenges |-> list] :
         q \in QuestIds, list \in LedgerChallengeLists}

(* a natural 1 and a success *)
LedgerRolls == {1, 10}

Init ==
    /\ npc_states = EmptyDict
    /\ player_stats = EmptyDict
    /\ quests = EmptyDict
    /\ challenges = EmptyDict
    /\ now = 0
    /\ input = EmptyDict
    /\ last = NoCall
    /\ calls_left = MaxCalls
    /\ entity_stubs = EmptyDict
    /\ session_data = EmptyDict
    /\ threads = EmptyDict

Next ==
    \/ \E s \in Sessions : CreateSession(s)
    \/ \E s \in Sessions, p \in LedgerProposals : AddQuest(s, p)
    \/ \E s \in Sessions, q \in QuestIds : AcceptQuest(s, q)
    \/ \E s \in Sessions, q \in QuestIds : RefuseQuest(s, q)
    \/ \E s \in Sessions, q \in QuestIds : ResolveQuest(s, q)
    \/ \E s \in Sessions : ClearDeadQuests(s)
    \/ \E s \in Sessions, c \in ChallengeIds, roll \in LedgerRolls : ResolveChallenge(s, c, roll)

Spec == Init /\ [][Next]_vars

----------------------------------------------------------------------------
(* Challenge resolution with a substituted random source: one session with *)
(* an accepted quest of one challenge, every difficulty class, and the     *)
(* value random.randint is patched to return held in input.die             *)

ResolveStrengths == {10, 14}

ResolveNpcStates ==
    update_relationship(Put(EmptyDict, "s1", InitialNpcStates), "s1", "npc_a",
                        Event("quest_accepted"), 0)

InitResolve ==
    /\ \E strength \in ResolveStrengths :
           player_stats = Put(EmptyDict, "s1", [DefaultStats EXCEPT !.strength = strength])
    /\ \E type \in TypeStrings, dc \in 0..MaxDC :
           /\ quests = Put(EmptyDict, "q1",
                           [add_quest_row("s1", [id |-> "q1", giver_npc |-> "npc_a"])
                                EXCEPT !.status = "active"])
           /\ challenges = InsertChallenges(EmptyDict, "s1", "q1",
                                            <<ChallengeSpec("c1", type, dc)>>)
    /\ npc_states = ResolveNpcStates
    /\ now = 0
    /\ \E die \in D20 : input = [die |-> die]
    /\ last = NoCall
    /\ calls_left = MaxResolves
    /\ entity_stubs = EmptyDict
    /\ session_data = Put(EmptyDict, "s1", InitialSessionData)
    /\ threads = EmptyDict

NextResolve ==
    \E c \in ChallengeIds : ResolveChallenge("s1", c, input.die)

SpecResolve == InitResolve /\ [][NextResolve]_vars

----------------------------------------------------------------------------
(* The relationship tracker alone: any sequence of update_relationship     *)
(* calls, in a session that exists (s1) and in one that does not (s2)      *)

UpdateRelationship(session_id, npc_name, change_amount) ==
    /\ last' = [op |-> "update_relationship", args |-> <<session_id, npc_name>>,
                ret |-> None, draws |-> <<>>]
    /\ npc_states' = update_relationship(npc_states, session_id, npc_name,
                                         change_amount, now)
    /\ UNCHANGED <<player_stats, quests, challenges, now, input, calls_left,
                 entity_stubs, session_data, threads>>

ChangeAmounts ==
    {Event(e) : e \in (DOMAIN RELATIONSHIP_MODIFIERS) \cup {"unknown_event"}}
    \cup {Delta(d) : d \in {-MaxDelta, -1, 1, MaxDelta}}

InitRel ==
    /\ npc_states = Put(EmptyDict, "s1", InitialNpcStates)
    /\ player_stats = Put(EmptyDict, "s1", DefaultStats)
    /\ quests = EmptyDict
    /\ challenges = EmptyDict
    /\ now = 0
    /\ input = EmptyDict
    /\ last = NoCall
    /\ calls_left = 0
    /\ entity_stubs = EmptyDict
    /\ session_data = Put(EmptyDict, "s1", InitialSessionData)
    /\ threads = EmptyDict

NextRel ==
    \E s \in Sessions, n \in NpcNames, amount \in ChangeAmounts :
        UpdateRelationship(s, n, amount)

SpecRel == InitRel /\ [][NextRel]_vars

----------------------------------------------------------------------------
(* The pure rules applied to arguments drawn from bounded ranges *)

RollInputs ==
    {[fn |-> "should_require_roll", challenge_dc |-> dc, player_stat |-> stat] :
         dc \in 0..MaxDC, stat \in 0..MaxStat}

SeverityInputs ==
    {[fn |-> "calculate_failure_severity", roll_total |-> total, dc |-> dc,
      is_crit_fail |-> crit] :
         total \in 0..MaxTotal, dc \in 0..MaxDC, crit \in BOOLEAN}

ShouldRequireRoll ==
    /\ input.fn = "should_require_roll"
    /\ last.op = "none"
    /\ last' = [op |-> "should_require_roll",
                args |-> <<input.challenge_dc, input.player_stat>>,
                ret |-> should_require_roll(input.challenge_dc, input.player_stat),
                draws |-> <<>>]
    /\ UNCHANGED <<npc_states, player_stats, quests, challenges, now, input, calls_left,
                 entity_stubs, session_data, threads>>

CalculateFailureSeverity ==
    /\ input.fn = "calculate_failure_severity"
    /\ last.op = "none"
    /\ last' = [op |-> "calculate_failure_severity",
                args |-> <<input.roll_total, input.dc, input.is_crit_fail>>,
                ret |-> calculate_failure_severity(input.roll_total, input.dc,
                                                   input.is_crit_fail),
                draws |-> <<>>]
    /\ UNCHANGED <<npc_states, player_stats, quests, challenges, now, input, calls_left,
                 entity_stubs, session_data, threads>>

InitPure ==
    /\ npc_states = EmptyDict
    /\ player_stats = EmptyDict
    /\ quests = EmptyDict
    /\ challenges = EmptyDict
    /\ now = 0
    /\ input \in RollInputs \cup SeverityInputs
    /\ last = NoCall
    /\ calls_left = 0
    /\ entity_stubs = EmptyDict
    /\ session_data = EmptyDict
    /\ threads = EmptyDict

NextPure == ShouldRequireRoll \/ CalculateFailureSeverity

SpecPure == InitPure /\ [][NextPure]_vars

----------------------------------------------------------------------------
(* Quest decisions and read models: two sessions, quest q1 of session s1   *)
(* in any status the operations can leave it in, a second quest, one       *)
(* challenge, and the giver near either end of the relationship scale      *)

QuestStatuses == {"offered", "active", "refused", "completed", "failed", "resolved"}

(* deltas booked for npc_a beforehand: scores 0, 50 and 99 *)
QuestRelationshipStarts == {-50, 0, 49}

QuestSessions ==
    [s \in Sessions |-> InitialNpcStates]

(* the quests table: q1 with responses of its own, q2 absent or present *)
QuestFirstRow(status) ==
    add_quest_row("s1", [id |-> "q1", giver_npc |-> "npc_a", status |-> status,
                         accept_response |-> "Aye.", refuse_response |-> "Nay."])

QuestSecondRows ==
    {add_quest_row(s[1], [id |-> "q2", giver_npc |-> "npc_b", status |-> s[2]]) :
         s \in {<<"s1", "offered">>, <<"s1", "completed">>, <<"s2", "failed">>}}

QuestTables ==
    {Put(EmptyDict, "q1", QuestFirstRow(status)) : status \in QuestStatuses}
    \cup {Put(Put(EmptyDict, "q1", QuestFirstRow(status)), "q2", second) :
              status \in QuestStatuses, second \in QuestSecondRows}

(* the challenges table: c1 of q1, open at each dc or already resolved *)
QuestChallengeTables ==
    LET open(dc) == InsertChallenges(EmptyDict, "s1", "q1",
                                     <<ChallengeSpec("c1", "strength", dc)>>)
    IN  {open(dc) : dc \in LedgerDCs}
        \cup {store_result(open(15), "c1",
                           rolled_result(open(15)["c1"], DefaultStats.strength, 10))}

InitQuest ==
    /\ \E d \in QuestRelationshipStarts :
           npc_states = update_relationship(QuestSessions, "s1", "npc_a", Delta(d), 0)
    /\ player_stats = [s \in Sessions |-> DefaultStats]
    /\ quests \in QuestTables
    /\ challenges \in QuestChallengeTables
    /\ now = 0
    /\ input = EmptyDict
    /\ last = NoCall
    /\ calls_left = MaxQuestCalls
    /\ entity_stubs = EmptyDict
    /\ session_data = [s \in Sessions |-> InitialSessionData]
    /\ threads = EmptyDict

NextQuest ==
    \/ \E s \in Sessions, q \in QuestIds : AcceptQuest(s, q)
    \/ \E s \in Sessions, q \in QuestIds : RefuseQuest(s, q)
    \/ \E s \in Sessions, q \in QuestIds : ResolveQuest(s, q)
    \/ \E s \in Sessions : ClearDeadQuests(s)
    \/ \E s \in Sessions : GetActiveQuests(s)
    \/ \E s \in Sessions : GetQuestContextForNpc(s)
    \/ \E s \in Sessions, c \in ChallengeIds, roll \in LedgerRolls : ResolveChallenge(s, c, roll)

SpecQuest == InitQuest /\ [][NextQuest]_vars

----------------------------------------------------------------------------
(* Narrative metadata: whatever the narrative collaborator returns is      *)
(* handed to process_metadata, for a session that exists (s1) and one that *)
(* does not (s2)                                                           *)

MetadataGold == {0, LegendaryGoldCap, MaxRewardGold + 1}
MetadataHealth == {1, 100}
MetadataItems == {"healing_potion", "god_killer"}

NarrativeMetadata ==
    {EmptyDict}
    \cup {[player_stats |-> [gold |-> g]] : g \in MetadataGold}
    \cup {[player_stats |-> [health |-> h]] : h \in MetadataHealth}
    \cup {[inventory_add |-> <<i>>] : i \in MetadataItems}
    \cup {[inventory_remove |-> <<i>>] : i \in MetadataItems}
    \cup {[quest_offered |-> [id |-> "q1", rewards |-> [gold |-> g]]] : g \in MetadataGold}

InitMeta ==
    /\ npc_states = Put(EmptyDict, "s1", InitialNpcStates)
    /\ player_stats = Put(EmptyDict, "s1", DefaultStats)
    /\ quests = EmptyDict
    /\ challenges = EmptyDict
    /\ now = 0
    /\ input = EmptyDict
    /\ last = NoCall
    /\ calls_left = MaxMetaCalls
    /\ entity_stubs = EmptyDict
    /\ session_data = Put(EmptyDict, "s1", InitialSessionData)
    /\ threads = EmptyDict

NextMeta ==
    \E s \in Sessions, metadata \in NarrativeMetadata : ProcessMetadata(s, metadata)

SpecMeta == InitMeta /\ [][NextMeta]_vars

----------------------------------------------------------------------------
(* Two executions of update_relationship for the same session and NPC,     *)
(* with no lock between them. Each runs three steps: get_npc_state and the *)
(* new score (Read), update_npc_state's own read of the session row        *)
(* (Load), and the UPDATE of the npc_states column (Store).                *)

Threads == {"t1", "t2"}

RaceAmounts == {Event(e) : e \in DOMAIN RELATIONSHIP_MODIFIERS}

PcIndex(pc) ==
    CASE pc = "start" -> 0 [] pc = "read" -> 1 [] pc = "loaded" -> 2 [] pc = "done" -> 3

(* steps taken so far by all executions *)
StepsDone ==
    LET ts == DOMAIN threads IN
    IF ts = {} THEN 0
    ELSE PcIndex(threads["t1"].pc) + PcIndex(threads["t2"].pc)

(* npc_state after lines 324-335: the state read, with the new score *)
read_for_update(st, session_id, npc_name, change_amount, t) ==
    LET npc_state == get_npc_state(st, session_id, npc_name, t) IN
    [npc_state EXCEPT !.relationship =
         Clamp(Get(npc_state, "relationship", 50) + ModifierOf(change_amount))]

(* npc_states of update_npc_state after lines 922-926 *)
merged_npc_states(loaded, npc_name, updates) ==
    Put(loaded, JsonKey(npc_name),
        Update(IF npc_name = None THEN EmptyDict ELSE Get(loaded, npc_name, EmptyDict),
               updates))

(* variant: the write dropped *)
written_npc_states_dropped(current, merged) == current

(* UPDATE sessions SET npc_states = ? : the whole column is replaced *)
written_npc_states(current, merged) == merged

ThreadStart(change_amount) ==
    [pc |-> "start", session_id |-> "s1", npc_name |-> "npc_a",
     change_amount |-> change_amount, npc_state |-> EmptyDict,
     npc_states |-> EmptyDict, read_step |-> 0, write_step |-> 0]

RaceRead(t) ==
    LET th == threads[t] IN
    /\ th.pc = "start"
    /\ threads' = [threads EXCEPT ![t] =
           [th EXCEPT !.pc = "read",
                      !.npc_state = read_for_update(npc_states, th.session_id,
                                                    th.npc_name, th.change_amount, now),
                      !.read_step = StepsDone + 1]]
    /\ npc_states' = get_npc_state_store(npc_states, th.session_id, th.npc_name, now)
    /\ UNCHANGED <<player_stats, quests, challenges, now, input, last, calls_left,
                   entity_stubs, session_data>>

RaceLoad(t) ==
    LET th == threads[t] IN
    /\ th.pc = "read"
    /\ threads' = [threads EXCEPT ![t] =
           [th EXCEPT !.pc = IF th.session_id \in DOMAIN npc_states
                             THEN "loaded" ELSE "done",
                      !.npc_states = IF th.session_id \in DOMAIN npc_states
                                     THEN merged_npc_states(npc_states[th.session_id],
                                                            th.npc_name, th.npc_state)
                                     ELSE EmptyDict]]
    /\ UNCHANGED <<npc_states, player_stats, quests, challenges, now, input, last,
                   calls_left, entity_stubs, session_data>>

RaceStore(t) ==
    LET th == threads[t] IN
    /\ th.pc = "loaded"
    /\ threads' = [threads EXCEPT ![t] =
           [th EXCEPT !.pc = "done", !.write_step = StepsDone + 1]]
    /\ npc_states' = IF th.session_id \in DOMAIN npc_states
                     THEN [npc_states EXCEPT ![th.session_id] =
                              written_npc_states(@, th.npc_states)]
                     ELSE npc_states
    /\ UNCHANGED <<player_stats, quests, challenges, now, input, last, calls_left,
                   entity_stubs, session_data>>

InitRace ==
    /\ \E d \in QuestRelationshipStarts :
           /\ npc_states = update_relationship(Put(EmptyDict, "s1", InitialNpcStates),
                                               "s1", "npc_a", Delta(d), 0)
           /\ input = [start |-> Clamp(50 + d)]
    /\ player_stats = Put(EmptyDict, "s1", DefaultStats)
    /\ quests = EmptyDict
    /\ challenges = EmptyDict
    /\ now = 0
    /\ last = NoCall
    /\ calls_left = 0
    /\ entity_stubs = EmptyDict
    /\ session_data = Put(EmptyDict, "s1", InitialSessionData)
    /\ threads \in [Threads -> {ThreadStart(a) : a \in RaceAmounts}]

NextRace ==
    \E t \in Threads : RaceRead(t) \/ RaceLoad(t) \/ RaceStore(t)

SpecRace == InitRace /\ [][NextRace]_vars

----------------------------------------------------------------------------
(* Named events applied one after another to one NPC of session s1: npc_b, *)
(* which has no record, or npc_a with a score already written. input keeps *)
(* the NPC, the events applied and the score read back after each.         *)

EventNames == DOMAIN RELATIONSHIP_MODIFIERS

EventStarts == {-50, 43}

ApplyEvent(event) ==
    /\ Call("update_relationship", <<"s1", input.npc, event>>, None, <<>>)
    /\ npc_states' = update_relationship(npc_states, "s1", input.npc, Event(event), now)
    /\ input' = [input EXCEPT
                    !.events = Append(@, event),
                    !.scores = Append(@, get_npc_state(npc_states', "s1", input.npc,
                                                       now).relationship)]
    /\ UNCHANGED <<player_stats, quests, challenges, now, entity_stubs, session_data,
                   threads>>

InitEvents ==
    /\ \/ /\ npc_states = Put(EmptyDict, "s1", InitialNpcStates)
          /\ input = [npc |-> "npc_b", events |-> <<>>, scores |-> <<>>]
       \/ \E d \in EventStarts :
              /\ npc_states = update_relationship(Put(EmptyDict, "s1", InitialNpcStates),
                                                  "s1", "npc_a", Delta(d), 0)
              /\ input = [npc |-> "npc_a", events |-> <<>>, scores |-> <<>>]
    /\ player_stats = Put(EmptyDict, "s1", DefaultStats)
    /\ quests = EmptyDict
    /\ challenges = EmptyDict
    /\ now = 0
    /\ last = NoCall
    /\ calls_left = MaxEvents
    /\ entity_stubs = EmptyDict
    /\ session_data = Put(EmptyDict, "s1", InitialSessionData)
    /\ threads = EmptyDict

NextEvents == \E event \in EventNames : ApplyEvent(event)

SpecEvents == InitEvents /\ [][NextEvents]_vars

----------------------------------------------------------------------------
(* The quest counter: quests recorded for the NPCs of session s1, the      *)
(* clock read by time.time() moving forward, and reads of an NPC's state.  *)
(* input keeps the NPC's merged state as it stood before the latest read.  *)

ClockTimes == {0, 1, 3599, 3600, 3601, 7199, 7200, 7201, 10800}

ClockAdvances(t) ==
    /\ t > now
    /\ now' = t
    /\ UNCHANGED <<npc_states, player_stats, quests, challenges, input, last, calls_left,
                   entity_stubs, session_data, threads>>

RecordQuestGiven(session_id, npc_name) ==
    /\ Call("record_quest_given", <<session_id, npc_name>>, None, <<now>>)
    /\ npc_states' = record_quest_given(npc_states, session_id, npc_name, now)
    /\ UNCHANGED <<player_stats, quests, challenges, now, input, entity_stubs,
                   session_data, threads>>

GetNpcState(session_id, npc_name) ==
    /\ Call("get_npc_state", <<session_id, npc_name>>,
            get_npc_state(npc_states, session_id, npc_name, now), <<now>>)
    /\ npc_states' = get_npc_state_store(npc_states, session_id, npc_name, now)
    /\ input' = [before |-> IF session_id \in DOMAIN npc_states
                            THEN Update(DEFAULT_NPC_STATE,
                                        stored_npc_state(npc_states, session_id, npc_name))
                            ELSE DEFAULT_NPC_STATE]
    /\ UNCHANGED <<player_stats, quests, challenges, now, entity_stubs, session_data,
                   threads>>

InitDecay ==
    /\ npc_states = Put(EmptyDict, "s1", InitialNpcStates)
    /\ player_stats = Put(EmptyDict, "s1", DefaultStats)
    /\ quests = EmptyDict
    /\ challenges = EmptyDict
    /\ now = 0
    /\ input = [before |-> DEFAULT_NPC_STATE]
    /\ last = NoCall
    /\ calls_left = MaxDecayCalls
    /\ entity_stubs = EmptyDict
    /\ session_data = Put(EmptyDict, "s1", InitialSessionData)
    /\ threads = EmptyDict

NextDecay ==
    \/ \E t \in ClockTimes : ClockAdvances(t)
    \/ \E s \in Sessions, n \in NpcNames : RecordQuestGiven(s, n)
    \/ \E s \in Sessions, n \in NpcNames : GetNpcState(s, n)

SpecDecay == InitDecay /\ [][NextDecay]_vars

----------------------------------------------------------------------------
(* Entity stubs: entity lists processed for two sessions, and quests       *)
(* offered with involved entities                                          *)

EntityIds == {"new_entity_1", "new_entity_2", "npc_a", "npc_b", "town"}

EntityLists ==
    {<<>>} \cup {<<a>> : a \in EntityIds} \cup {<<a, b>> : a, b \in EntityIds}

StubProposals ==
    {[id |-> "q1", giver_npc |-> "npc_a", involved_entities |-> list] :
         list \in {<<"new_entity_1", "new_entity_2">>, <<"npc_a">>}}

ProcessInvolvedEntities(session_id, entities) ==
    LET result == process_involved_entities(entity_stubs, session_id, entities) IN
    /\ Call("process_involved_entities", <<session_id, entities>>, result.ret, <<>>)
    /\ entity_stubs' = result.stubs
    /\ UNCHANGED <<npc_states, player_stats, quests, challenges, now, input,
                   session_data, threads>>

(* two new sessions, and in the first an NPC that is no character of the  *)
(* game world and has state since the player accepted a quest of theirs   *)
StubNpcStates ==
    update_relationship([s \in Sessions |-> InitialNpcStates], "s1", "npc_b",
                        Event("quest_accepted"), 0)

InitStubs ==
    /\ npc_states = StubNpcStates
    /\ player_stats = [s \in Sessions |-> DefaultStats]
    /\ quests = EmptyDict
    /\ challenges = EmptyDict
    /\ now = 0
    /\ input = EmptyDict
    /\ last = NoCall
    /\ calls_left = MaxStubCalls
    /\ entity_stubs = EmptyDict
    /\ session_data = [s \in Sessions |-> InitialSessionData]
    /\ threads = EmptyDict

NextStubs ==
    \/ \E s \in Sessions, list \in EntityLists : ProcessInvolvedEntities(s, list)
    \/ \E s \in Sessions, p \in StubProposals : AddQuest(s, p)

SpecStubs == InitStubs /\ [][NextStubs]_vars

----------------------------------------------------------------------------
(* The reward rules applied to arguments drawn from bounded sets. input    *)
(* holds the function, its arguments and, for calculate_quest_rewards, the *)
(* two values random.randint returns (the XP draw, then the gold draw).    *)

TierNames ==
    (DOMAIN VALUE_TIERS) \cup (DOMAIN TIER_MAPPING) \cup {"Boss", "unknown_tier"}

NpcProfiles ==
    {[name |-> "Giver", resource_level |-> level] :
         level \in (DOMAIN NPC_RESOURCE_LEVELS) \cup {"unknown_level"}}
    \cup {[name |-> "Giver"]}

(* random.randint(base_xp[0], base_xp[1]): the ends of the range *)
XpDraws(quest_tier) ==
    LET base_xp == get_tier_config(quest_tier).xp IN {base_xp[1], base_xp[2]}

(* random.randint(min_gold, max_gold): the ends of the range; 0 stands for *)
(* no draw when no gold is offered                                         *)
GoldDraws(quest_tier, npc_profile, relationship) ==
    LET bounds == gold_bounds(quest_tier, npc_profile, relationship) IN
    IF offers_gold(resource_level_of(npc_profile)) /\ bounds[2] > 0
    THEN {a \in {bounds[1], bounds[2]} : bounds[1] <= a /\ a <= bounds[2]}
    ELSE {0}

CalculateInput(tier, profile, relationship, xp, amount) ==
    [fn |-> "calculate_quest_rewards", quest_tier |-> tier, npc_profile |-> profile,
     relationship |-> relationship, randint |-> <<xp, amount>>]

(* a wealthy giver, a standard-tier quest, relationship 50: every gold     *)
(* draw of the range, each followed by the validation of a proposal        *)
MerchantProfile == [name |-> "Merchant", resource_level |-> "wealthy"]

MerchantTiers == {"tier_2_standard", "tough"}

MerchantProposals == {500, 3100}

MerchantInput(tier, amount) ==
    Update(CalculateInput(tier, MerchantProfile, 50, 150, amount),
           [proposals |-> MerchantProposals])

ProposedGold == {0, 1, 100, 150, 151, 500, 750, 751, 3100}

Proposal(rewards) == [quest_offered |-> [description |-> "d", rewards |-> rewards]]

LlmOutputs ==
    {EmptyDict, [quest_offered |-> EmptyDict], [quest_offered |-> [description |-> "d"]]}
    \cup {Proposal([gold |-> g]) : g \in ProposedGold}
    \cup {Proposal([gold |-> g, items |-> <<"iron_sword">>]) : g \in {0, 100}}

CalculatedRewards ==
    {EmptyDict, [xp |-> 30, material_rewards |-> <<>>]}
    \cup {[xp |-> 30, material_rewards |->
               <<[type |-> "gold", amount |-> a],
                 [type |-> "information", value |-> "lore_or_quest_hook"]>>] :
              a \in {100, 500}}

ValidateLlmInputs ==
    {[fn |-> "validate_llm_quest_rewards", llm_output |-> llm_output,
      npc_profile |-> profile, calculated_rewards |-> calculated] :
         llm_output \in LlmOutputs, profile \in NpcProfiles,
         calculated \in CalculatedRewards}

FlatGold == {0, 5, 6, 20, 25, 26, 100, 101, 300, 301, 500, 800, 1000, 1001, 5000, 5001}

ValidateQuestInputs ==
    {[fn |-> "validate_quest_rewards",
      quest_data |-> [id |-> "q1", tier |-> tier, rewards |-> [gold |-> g]]] :
         tier \in TierNames, g \in FlatGold}
    \cup {[fn |-> "validate_quest_rewards",
           quest_data |-> [id |-> "q1", rewards |-> [gold |-> g]]] : g \in FlatGold}
    \cup {[fn |-> "validate_quest_rewards", quest_data |-> [id |-> "q1", tier |-> tier]] :
              tier \in TierNames}

TierConfigInputs == {[fn |-> "get_tier_config", tier_name |-> tier] : tier \in TierNames}

ApplyRule(op, args, ret, draws) ==
    /\ last' = [op |-> op, args |-> args, ret |-> ret, draws |-> draws]
    /\ UNCHANGED <<npc_states, player_stats, quests, challenges, now, input, calls_left,
                   entity_stubs, session_data, threads>>

GetTierConfig ==
    /\ input.fn = "get_tier_config"
    /\ last.op = "none"
    /\ ApplyRule("get_tier_config", <<input.tier_name>>,
                 get_tier_config(input.tier_name), <<>>)

CalculateQuestRewards ==
    /\ input.fn = "calculate_quest_rewards"
    /\ last.op = "none"
    /\ ApplyRule("calculate_quest_rewards",
                 <<input.quest_tier, input.npc_profile, input.relationship>>,
                 calculate_quest_rewards(input.quest_tier, input.npc_profile,
                                         input.relationship, input.randint[1],
                                         input.randint[2]),
                 input.randint)

(* the proposal checked against the rewards just calculated *)
ValidateCalculated(offered_gold) ==
    /\ last.op = "calculate_quest_rewards"
    /\ "proposals" \in DOMAIN input
    /\ offered_gold \in input.proposals
    /\ ApplyRule("validate_llm_quest_rewards",
                 <<Proposal([gold |-> offered_gold]), input.npc_profile, last.ret>>,
                 validate_llm_quest_rewards(Proposal([gold |-> offered_gold]),
                                            input.npc_profile, last.ret),
                 <<>>)

ValidateLlmQuestRewards ==
    /\ input.fn = "validate_llm_quest_rewards"
    /\ last.op = "none"
    /\ ApplyRule("validate_llm_quest_rewards",
                 <<input.llm_output, input.npc_profile, input.calculated_rewards>>,
                 validate_llm_quest_rewards(input.llm_output, input.npc_profile,
                                            input.calculated_rewards),
                 <<>>)

(* validate_quest_rewards on the proposal, and again on what it returned *)
ValidateQuestRewards ==
    /\ input.fn = "validate_quest_rewards"
    /\ LET quest_data == IF last.op = "none" THEN input.quest_data ELSE last.ret IN
       ApplyRule("validate_quest_rewards", <<quest_data>>,
                 validate_quest_rewards(quest_data), <<>>)

InitRewards ==
    /\ npc_states = EmptyDict
    /\ player_stats = EmptyDict
    /\ quests = EmptyDict
    /\ challenges = EmptyDict
    /\ now = 0
    /\ \/ \E tier \in TierNames, profile \in NpcProfiles, relationship \in 0..100 :
              \E xp \in XpDraws(tier), amount \in GoldDraws(tier, profile, relationship) :
                  input = CalculateInput(tier, profile, relationship, xp, amount)
       \/ \E tier \in MerchantTiers :
              \E amount \in gold_bounds(tier, MerchantProfile, 50)[1]
                               .. gold_bounds(tier, MerchantProfile, 50)[2] :
                  input = MerchantInput(tier, amount)
       \/ input \in ValidateLlmInputs
       \/ input \in ValidateQuestInputs
       \/ input \in TierConfigInputs
    /\ last = NoCall
    /\ calls_left = 0
    /\ entity_stubs = EmptyDict
    /\ session_data = EmptyDict
    /\ threads = EmptyDict

NextRewards ==
    \/ GetTierConfig
    \/ CalculateQuestRewards
    \/ \E offered_gold \in MerchantProposals : ValidateCalculated(offered_gold)
    \/ ValidateLlmQuestRewards
    \/ ValidateQuestRewards

SpecRewards == InitRewards /\ [][NextRewards]_vars

----------------------------------------------------------------------------
(* Specification of the proposal check: validate_quest_output applied once  *)
(* to a quest proposal of the narrator.                                     *)

(* the keys a challenge of a proposal may or may not have *)
ChallengeTypeParts ==
    {EmptyDict} \cup {[type |-> t] : t \in {"strength", "charisma", "magic", "Strength"}}
ChallengeDifficultyParts ==
    {EmptyDict} \cup {[difficulty |-> d] : d \in {"easy", "medium", "heroic", "legendary"}}
ChallengeDcParts == {EmptyDict} \cup {[dc |-> n] : n \in {0, 10, 15, 25}}
ChallengeIdParts == {EmptyDict, [id |-> "c1"]}
ChallengeDescriptionParts == {EmptyDict, [description |-> "Lift rock"]}

ProposedChallenges ==
    {Update(Update(Update(Update(i, d), t), f), n) :
        i \in ChallengeIdParts, d \in ChallengeDescriptionParts, t \in ChallengeTypeParts,
        f \in ChallengeDifficultyParts, n \in ChallengeDcParts}

(* the challenge of the valid quest of test_validate_quest_output *)
LiftRock ==
    [id |-> "c1", type |-> "strength", difficulty |-> "medium", dc |-> 15,
     description |-> "Lift rock"]

ProposedChallengeLists ==
    {<<>>} \cup {<<c>> : c \in ProposedChallenges}
           \cup {<<LiftRock, c>> : c \in ProposedChallenges}
           \cup {<<c, LiftRock>> : c \in ProposedChallenges}

(* the keys of the quest besides its challenges *)
ProposedQuestFields ==
    {[id |-> "q1", description |-> "Test Quest", accept_response |-> "a",
      refuse_response |-> "r"],
     [id |-> "q1", description |-> "Test Quest"],
     [id |-> "q1", description |-> "Test Quest", accept_response |-> "a"],
     [id |-> "q1", description |-> "Test Quest", refuse_response |-> "r"],
     [description |-> "Test Quest", accept_response |-> "a", refuse_response |-> "r"],
     [id |-> "q1", accept_response |-> "a", refuse_response |-> "r"]}

ProposedQuests ==
    {EmptyDict} \cup ProposedQuestFields
    \cup {Update(q, [challenges |-> list]) :
              q \in ProposedQuestFields, list \in ProposedChallengeLists}

ValidateQuestOutput ==
    /\ input.fn = "validate_quest_output"
    /\ last.op = "none"
    /\ ApplyRule("validate_quest_output", <<input.quest_data>>,
                 validate_quest_output(input.quest_data), <<>>)

InitOutput ==
    /\ npc_states = EmptyDict
    /\ player_stats = EmptyDict
    /\ quests = EmptyDict
    /\ challenges = EmptyDict
    /\ now = 0
    /\ \E quest_data \in ProposedQuests :
           input = [fn |-> "validate_quest_output", quest_data |-> quest_data]
    /\ last = NoCall
    /\ calls_left = 0
    /\ entity_stubs = EmptyDict
    /\ session_data = EmptyDict
    /\ threads = EmptyDict

NextOutput == ValidateQuestOutput

SpecOutput == InitOutput /\ [][NextOutput]_vars

----------------------------------------------------------------------------
(* Properties *)

Resolved(call) == call.op = "resolve_challenge" /\ "error" \notin DOMAIN call.ret

(* the stat of the player for the type of challenge c of session s *)
RawStat(s, c) ==
    LET key == Lower(challenges[c].type)
        row == IF s \in DOMAIN player_stats THEN player_stats[s] ELSE DefaultStats
    IN  IF key \in DOMAIN row THEN row[key] ELSE 0

LedgerOps ==
    {"accept_quest", "refuse_quest", "resolve_challenge", "resolve_quest",
     "clear_dead_quests"}

(* C1: under accept_quest, refuse_quest, resolve_challenge, resolve_quest   *)
(* and clear_dead_quests a quest's status follows the transition graph of  *)
(* the ledger; stated here by the claim's own consequences: a refused or   *)
(* resolved quest never changes status again, and a quest still offered    *)
(* (never accepted) never becomes completed or failed.                     *)
C1_TerminalAndUnaccepted ==
    [][last'.op \in LedgerOps =>
         \A q \in DOMAIN quests :
             /\ quests[q].status \in {"refused", "resolved"}
                    => quests'[q].status = quests[q].status
             /\ quests[q].status = "offered"
                    => quests'[q].status \notin {"completed", "failed"}]_vars

(* C2: when resolve_challenge resolves the last incomplete challenge of a  *)
(* quest, the quest is completed if every challenge's result succeeded and *)
(* failed otherwise; while a challenge of the quest is still incomplete    *)
(* the call leaves the quest's status unchanged.                           *)
C2_Aggregation ==
    [][Resolved(last') =>
         LET c == last'.args[2]
             q == challenges[c].quest_id
             mine == ChallengesOf(challenges', q)
         IN  IF \A x \in mine : challenges'[x].completed
             THEN ~challenges[c].completed =>
                      /\ q \in DOMAIN quests'
                      /\ quests'[q].status =
                             IF \A x \in mine : challenges'[x].result[1].success
                             THEN "completed" ELSE "failed"
             ELSE \A x \in DOMAIN quests :
                      x \in DOMAIN quests' /\ quests'[x].status = quests[x].status]_vars

C2_Witness ==
    /\ last.op = "resolve_challenge"
    /\ MaxCalls - calls_left = 3
    /\ \E q \in DOMAIN quests :
           /\ quests[q].status = "failed"
           /\ Cardinality(ChallengesOf(challenges, q)) = 2
           /\ \A c \in ChallengesOf(challenges, q) : challenges[c].completed
           /\ \E c \in ChallengesOf(challenges, q) : challenges[c].result[1].success
           /\ \E c \in ChallengesOf(challenges, q) : ~challenges[c].result[1].success

(* C3: a resolve_challenge call on a challenge that is already completed   *)
(* changes neither the stored result, nor any relationship, nor the status *)
(* of the owning quest.                                                    *)
C3_CompletedIsImmutable ==
    [][Resolved(last') /\ challenges[last'.args[2]].completed =>
         /\ challenges'[last'.args[2]].result = challenges[last'.args[2]].result
         /\ npc_states' = npc_states
         /\ quests' = quests]_vars

(* C4: every stored relationship score is an integer in [0,100].           *)
C4_RelationshipInRange ==
    \A s \in DOMAIN npc_states : \A n \in DOMAIN npc_states[s] :
        "relationship" \in DOMAIN npc_states[s][n]
            => npc_states[s][n].relationship \in 0..100

C4_Witness ==
    /\ last.op = "update_relationship"
    /\ "s1" \in DOMAIN npc_states
    /\ {"npc_a", "npc_b"} \subseteq DOMAIN npc_states["s1"]
    /\ "relationship" \in DOMAIN npc_states["s1"]["npc_a"]
    /\ npc_states["s1"]["npc_a"].relationship = 0
    /\ npc_states["s1"]["npc_b"].relationship = 100

(* C5: should_require_roll answers auto_success without a roll exactly     *)
(* when stat - dc >= 5, auto_failure without a roll exactly when           *)
(* stat - dc <= -10, and a required roll (uncertain) otherwise.            *)
C5_ShouldRequireRoll ==
    last.op = "should_require_roll" =>
        LET margin == last.args[2] - last.args[1]
            ret == last.ret
        IN  /\ (ret.outcome = "auto_success" /\ ~ret.requires_roll) <=> margin >= 5
            /\ (ret.outcome = "auto_failure" /\ ~ret.requires_roll) <=> margin <= -10
            /\ (ret.outcome = "uncertain" /\ ret.requires_roll)
                   <=> (margin > -10 /\ margin < 5)

C5_Witness ==
    /\ last.op = "should_require_roll"
    /\ last.args[2] - last.args[1] = 5
    /\ last.ret.outcome = "auto_success"

(* C6: calculate_failure_severity answers critical whenever is_crit_fail   *)
(* holds, and otherwise minor iff total - dc >= -3, major iff              *)
(* -8 <= total - dc < -3, severe iff total - dc < -8.                      *)
C6_FailureSeverity ==
    last.op = "calculate_failure_severity" =>
        LET margin == last.args[1] - last.args[2]
            is_crit_fail == last.args[3]
        IN  IF is_crit_fail
            THEN last.ret = "critical"
            ELSE /\ last.ret = "minor" <=> margin >= -3
                 /\ last.ret = "major" <=> (-8 <= margin /\ margin < -3)
                 /\ last.ret = "severe" <=> margin < -8

C6_Witness ==
    /\ last.op = "calculate_failure_severity"
    /\ ~last.args[3]
    /\ last.args[1] - last.args[2] = -8
    /\ last.ret = "major"

(* C7: when a roll is required (-10 < stat - dc < 5) resolve_challenge     *)
(* draws one roll in 1..20, total = roll + the raw stat, and success holds *)
(* iff total >= dc and roll # 1; stat 10, dc 15, roll 10 gives total 20,   *)
(* success and margin 5.                                                   *)
C7_RolledResolution ==
    Resolved(last) =>
        LET c == last.args[2]
            stat == RawStat(last.args[1], c)
            dc == challenges[c].dc
            ret == last.ret
        IN  (stat - dc > -10 /\ stat - dc < 5) =>
                /\ Len(last.draws) = 1
                /\ last.draws[1] \in 1..20
                /\ ret.roll = last.draws[1]
                /\ ret.total = ret.roll + stat
                /\ ret.success <=> (ret.total >= dc /\ ret.roll # 1)
                /\ (stat = 10 /\ dc = 15 /\ ret.roll = 10) =>
                       (ret.total = 20 /\ ret.success /\ ret.margin = 5)

(* a natural 1 that fails although the total reaches the dc *)
C7_Witness ==
    /\ Resolved(last)
    /\ last.draws = <<1>>
    /\ last.ret.total >= last.ret.dc
    /\ ~last.ret.success

(* C8, as stated: stat 10, dc 25 and the die forced to 5 give a record     *)
(* with total 15, success false, margin -10 and severity severe.           *)
C8_Scenario(ret) == ret.stat_bonus = 10 /\ ret.dc = 25 /\ input.die = 5

C9_Delta(ret) ==
    IF "auto_resolved" \in DOMAIN ret
    THEN IF ret.success THEN 5 ELSE 0
    ELSE IF ret.success THEN 8
    ELSE CASE ret.severity = "minor" -> -2
           [] ret.severity = "major" -> -5
           [] ret.severity = "severe" -> -10
           [] ret.severity = "critical" -> -15

C9_OneRelationshipEvent ==
    [][Resolved(last') =>
         LET s == last'.args[1]
             c == last'.args[2]
             giver == quests[challenges[c].quest_id].giver_npc
         IN  /\ challenges'[c].result = <<last'.ret>>
             /\ DOMAIN npc_states' = DOMAIN npc_states
             /\ \A s2 \in DOMAIN npc_states' : \A n \in DOMAIN npc_states'[s2] :
                    IF s2 = s /\ n = giver
                    THEN Relationship(npc_states', s, n)
                             = Clamp(Relationship(npc_states, s, n) + C9_Delta(last'.ret))
                    ELSE /\ n \in DOMAIN npc_states[s2]
                         /\ npc_states'[s2][n] = npc_states[s2][n]]_vars

(* C10: an auto-resolved challenge is recorded without a die: for          *)
(* stat - dc >= 5 roll 20, total 20 + stat, success, severity minor; for   *)
(* stat - dc <= -10 roll 1, total 1 + stat, failure, severity impossible;  *)
(* in both auto_resolved holds, margin = total - dc and the challenge is   *)
(* completed.                                                              *)
C10_AutoResolution ==
    Resolved(last) =>
        LET c == last.args[2]
            stat == RawStat(last.args[1], c)
            dc == challenges[c].dc
            ret == last.ret
            auto == /\ "auto_resolved" \in DOMAIN ret
                    /\ ret.auto_resolved
                    /\ last.draws = <<>>
                    /\ ret.margin = ret.total - dc
                    /\ challenges[c].completed
                    /\ challenges[c].result = <<ret>>
        IN  /\ stat - dc >= 5 =>
                   /\ auto
                   /\ ret.roll = 20 /\ ret.total = 20 + stat
                   /\ ret.success /\ ret.severity = "minor"
            /\ stat - dc <= -10 =>
                   /\ auto
                   /\ ret.roll = 1 /\ ret.total = 1 + stat
                   /\ ~ret.success /\ ret.severity = "impossible"

(* an auto-failure at the boundary stat - dc = -10 *)
C10_Witness ==
    /\ Resolved(last)
    /\ "auto_resolved" \in DOMAIN last.ret
    /\ last.ret.stat_bonus - last.ret.dc = -10
    /\ last.ret.severity = "impossible"

(* ids of the quests a read model returned *)
ReturnedIds(listed) == {r.id : r \in listed}

DecisionOps == {"accept_quest", "refuse_quest"}

(* C11: accept_quest on an offered quest sets it active, applies           *)
(* quest_accepted (+2, clamped) to the giver and returns the stored        *)
(* accept_response; refuse_quest sets it refused, applies quest_refused    *)
(* (-3) and returns the stored refuse_response; get_active_quests does not *)
(* list the quest while it is offered and lists it as active once it is    *)
(* accepted.                                                               *)
C11_AcceptAndRefuse ==
    [][(/\ last'.op \in DecisionOps
        /\ QuestRow(quests, last'.args[1], last'.args[2]) # NULL
        /\ quests[last'.args[2]].status = "offered") =>
         LET s == last'.args[1]
             q == last'.args[2]
             giver == quests[q].giver_npc
             accept == last'.op = "accept_quest"
         IN  /\ quests'[q].status = IF accept THEN "active" ELSE "refused"
             /\ Relationship(npc_states', s, giver)
                    = Clamp(Relationship(npc_states, s, giver) + IF accept THEN 2 ELSE -3)
             /\ last'.ret = IF accept THEN quests[q].accept_response
                            ELSE quests[q].refuse_response
             /\ q \notin ReturnedIds(get_active_quests(quests, challenges,
                                                       player_stats, s))
             /\ accept =>
                    \E r \in get_active_quests(quests', challenges', player_stats', s) :
                        r.id = q /\ r.status = "active"]_vars

(* an accepted quest whose giver's score was clamped at 100 *)
C11_Witness ==
    /\ last.op = "accept_quest"
    /\ last.args = <<"s1", "q1">>
    /\ last.ret = "Aye."
    /\ calls_left = MaxQuestCalls - 1
    /\ quests["q1"].status = "active"
    /\ Relationship(npc_states, "s1", "npc_a") = 100
    /\ "q1" \in ReturnedIds(get_active_quests(quests, challenges, player_stats, "s1"))

(* C12: accept_quest or refuse_quest on an existing quest that is not      *)
(* offered changes neither the quest's status nor the giver's              *)
(* relationship score.                                                     *)
C12_DecisionOnlyWhenOffered ==
    [][(/\ last'.op \in DecisionOps
        /\ QuestRow(quests, last'.args[1], last'.args[2]) # NULL
        /\ quests[last'.args[2]].status # "offered") =>
         LET s == last'.args[1]
             q == last'.args[2]
             giver == quests[q].giver_npc
         IN  /\ quests'[q].status = quests[q].status
             /\ Relationship(npc_states', s, giver)
                    = Relationship(npc_states, s, giver)]_vars

(* the texts accept_quest and refuse_quest answer with when the quest has  *)
(* no response of its own                                                  *)
DefaultResponses == {"Quest accepted.", "Quest refused."}

(* the call found no row with the id in the session *)
NotFound(call) ==
    IF call.op = "resolve_challenge"
    THEN ~(call.args[2] \in DOMAIN challenges
           /\ challenges[call.args[2]].session_id = call.args[1])
    ELSE QuestRow(quests, call.args[1], call.args[2]) = NULL

(* the call answered with an error rather than a success response *)
ErrorOutcome(call) ==
    IF call.op = "resolve_challenge"
    THEN "error" \in DOMAIN call.ret
    ELSE call.ret \notin DefaultResponses

(* C13: accept_quest, refuse_quest and resolve_challenge called with an id *)
(* that does not exist in the session return an error outcome and leave    *)
(* every quest, challenge and relationship record unchanged.               *)
C13_NotFoundSurfaced ==
    [][(last'.op \in DecisionOps \cup {"resolve_challenge"} /\ NotFound(last')) =>
         /\ ErrorOutcome(last')
         /\ quests' = quests
         /\ challenges' = challenges
         /\ npc_states' = npc_states]_vars

(* C14: resolve_quest on an existing quest of the session sets its status  *)
(* to resolved whatever the status was, and changes no other quest, no     *)
(* challenge record and no relationship record.                            *)
C14_ResolveQuest ==
    [][(/\ last'.op = "resolve_quest"
        /\ QuestRow(quests, last'.args[1], last'.args[2]) # NULL) =>
         /\ quests' = [quests EXCEPT ![last'.args[2]].status = "resolved"]
         /\ challenges' = challenges
         /\ npc_states' = npc_states]_vars

(* a quest refused and then closed, beside a second quest left as it was *)
C14_Witness ==
    /\ last.op = "resolve_quest"
    /\ last.args = <<"s1", "q1">>
    /\ calls_left = MaxQuestCalls - 2
    /\ Relationship(npc_states, "s1", "npc_a") = 47
    /\ quests["q1"].status = "resolved"
    /\ "q2" \in DOMAIN quests
    /\ quests["q2"].status = "completed"

(* C15: clear_dead_quests(session) sets to resolved exactly the completed  *)
(* and failed quests of the session, returns how many it changed, leaves   *)
(* every other quest as it was, and an immediately repeated call returns 0 *)
(* and changes nothing.                                                    *)
C15_ClearDeadQuests ==
    [][last'.op = "clear_dead_quests" =>
         LET s == last'.args[1]
             dead(q) == quests[q].session_id = s
                        /\ quests[q].status \in {"completed", "failed"}
         IN  /\ DOMAIN quests' = DOMAIN quests
             /\ \A q \in DOMAIN quests :
                    quests'[q] = IF dead(q) THEN [quests[q] EXCEPT !.status = "resolved"]
                                 ELSE quests[q]
             /\ last'.ret = Cardinality({q \in DOMAIN quests : dead(q)})
             /\ (last.op = "clear_dead_quests" /\ last.args = last'.args) =>
                    (last'.ret = 0 /\ quests' = quests)]_vars

(* two dead quests of s1 closed by one call *)
C15_Witness ==
    /\ last.op = "clear_dead_quests"
    /\ last.args = <<"s1">>
    /\ last.ret = 2
    /\ calls_left = MaxQuestCalls - 1
    /\ \A q \in QuestIds : q \in DOMAIN quests /\ quests[q].status = "resolved"

ReadModels == {"get_active_quests", "get_quest_context_for_npc"}

(* C16: get_active_quests and get_quest_context_for_npc never mutate state: *)
(* every quest, challenge, NPC relationship and stub record is the same     *)
(* before and after the call, previews included.                            *)
C16_ReadModelsArePure ==
    [][last'.op \in ReadModels =>
         /\ quests' = quests
         /\ challenges' = challenges
         /\ npc_states' = npc_states
         /\ entity_stubs' = entity_stubs
         /\ player_stats' = player_stats]_vars

(* a read that computed an auto-resolution preview for an open challenge *)
C16_Witness ==
    /\ last.op = "get_active_quests"
    /\ \E r \in last.ret : \E ch \in r.challenges :
           /\ r.status = "active"
           /\ ~ch.completed
           /\ "auto_result" \in DOMAIN ch
           /\ ch.auto_result = "auto_failure"
    /\ ~challenges["c1"].completed

(* C17: processing a narrative response never sets the player's gold to a  *)
(* value the reward rules do not support: one response raises gold by no   *)
(* more than the largest amount the reward validators compute or accept.   *)
C17_NoUnsupportedGold ==
    [][last'.op = "process_metadata" =>
         \A s \in DOMAIN session_data :
             session_data'[s].gold <= session_data[s].gold + MaxRewardGold]_vars

(* execution t wrote before execution u read *)
Serialized(t, u) == threads[t].write_step < threads[u].read_step

(* the score after the modifier of t, then that of u, each clamped *)
SerialScore(t, u) ==
    Clamp(Clamp(input.start + ModifierOf(threads[t].change_amount))
          + ModifierOf(threads[u].change_amount))

RaceFinished == \A t \in Threads : threads[t].pc = "done"

(* C18: when two update_relationship executions for the same session and   *)
(* NPC are serialized, the final score is the clamped application of the   *)
(* first modifier followed by that of the second; when both read before    *)
(* either writes, the final score carries only the modifier of the         *)
(* execution that wrote last.                                              *)
C18_LostUpdate ==
    RaceFinished =>
        LET score == Relationship(npc_states, "s1", "npc_a")
            later == IF threads["t1"].write_step > threads["t2"].write_step
                     THEN "t1" ELSE "t2"
        IN  IF Serialized("t1", "t2") THEN score = SerialScore("t1", "t2")
            ELSE IF Serialized("t2", "t1") THEN score = SerialScore("t2", "t1")
            ELSE score = Clamp(input.start + ModifierOf(threads[later].change_amount))

(* a lost update: the score differs from both serial orders *)
C18_Witness ==
    /\ RaceFinished
    /\ ~Serialized("t1", "t2")
    /\ ~Serialized("t2", "t1")
    /\ input.start = 50
    /\ threads["t1"].change_amount = Event("quest_accepted")
    /\ threads["t2"].change_amount = Event("roll_success")
    /\ Relationship(npc_states, "s1", "npc_a") = 52
    /\ SerialScore("t1", "t2") = 60

(* C19: update_relationship with a named event adds that event's table     *)
(* value (quest_accepted +2, auto_success +5, roll_success +8,             *)
(* minor_failure -2, major_failure -5, severe_failure -10,                 *)
(* critical_failure -15, quest_refused -3, quest_abandoned -8) to the      *)
(* current score and clamps the sum to 0..100; an NPC with no record       *)
(* starts from 50; from there quest_accepted, minor_failure,               *)
(* critical_failure, auto_success read back 52, 50, 35, 40.                *)
C19_NamedEvents ==
    [][last'.op = "update_relationship" =>
         LET table == [quest_accepted |-> 2, auto_success |-> 5, roll_success |-> 8,
                       minor_failure |-> -2, major_failure |-> -5,
                       severe_failure |-> -10, critical_failure |-> -15,
                       quest_refused |-> -3, quest_abandoned |-> -8]
             n == last'.args[2]
             event == last'.args[3]
             before == IF n \in DOMAIN npc_states["s1"]
                          /\ "relationship" \in DOMAIN npc_states["s1"][n]
                       THEN npc_states["s1"][n].relationship ELSE 50
             sum == before + table[event]
         IN  /\ n \in DOMAIN npc_states'["s1"]
             /\ npc_states'["s1"][n].relationship
                    = IF sum < 0 THEN 0 ELSE IF sum > 100 THEN 100 ELSE sum
             /\ \A other \in DOMAIN npc_states["s1"] \ {n} :
                    npc_states'["s1"][other] = npc_states["s1"][other]
             /\ (/\ input.npc = "npc_b"
                 /\ input'.events = <<"quest_accepted", "minor_failure",
                                      "critical_failure", "auto_success">>)
                    => input'.scores = <<52, 50, 35, 40>>]_vars

(* the example sequence has been applied to the NPC that had no record *)
C19_Witness ==
    /\ input.npc = "npc_b"
    /\ input.events = <<"quest_accepted", "minor_failure", "critical_failure",
                        "auto_success">>
    /\ last.op = "update_relationship"
    /\ npc_states["s1"]["npc_b"].relationship = 40

(* C20: a read of an NPC's state returns the stored counter unchanged or,  *)
(* when the counter is positive and more than 3600 seconds have passed     *)
(* since last_quest_given, the counter less one per whole hour elapsed and *)
(* never below 0; a counter of 2 last raised 7200 seconds ago reads 0; the *)
(* counter read is never negative.                                         *)
C20_DecayOnRead ==
    [][(calls_left' < calls_left /\ last'.op = "get_npc_state") =>
         LET session_id == last'.args[1]
             npc_name == last'.args[2]
             record == IF session_id \in DOMAIN npc_states
                          /\ npc_name \in DOMAIN npc_states[session_id]
                       THEN npc_states[session_id][npc_name] ELSE EmptyDict
             counter == IF "quests_given_recently" \in DOMAIN record
                        THEN record.quests_given_recently ELSE 0
             elapsed == now - (IF "last_quest_given" \in DOMAIN record
                               THEN record.last_quest_given ELSE 0)
             hours == elapsed \div 3600
             read == last'.ret.quests_given_recently
         IN  /\ read = IF counter > 0 /\ elapsed > 3600
                       THEN (IF counter - hours > 0 THEN counter - hours ELSE 0)
                       ELSE counter
             /\ read >= 0
             /\ (counter = 2 /\ elapsed = 7200) => read = 0]_vars

(* a counter of 2 last raised 7200 seconds before the read is read as 0 *)
C20_Witness ==
    /\ last.op = "get_npc_state"
    /\ input.before.quests_given_recently = 2
    /\ last.draws[1] - input.before.last_quest_given = 7200
    /\ last.ret.quests_given_recently = 0

(* C21: record_quest_given in an existing session raises the counter a     *)
(* read of the NPC would return at that moment by exactly 1, sets          *)
(* last_quest_given to the current time and quest_cooldown_expires to the  *)
(* current time plus 300, and leaves relationship and mood as they were;   *)
(* an NPC with no counter gets 1, and a second call within the hour 2.     *)
C21_RecordQuestGiven ==
    [][(calls_left' < calls_left /\ last'.op = "record_quest_given"
           /\ last'.args[1] \in DOMAIN npc_states) =>
         LET session_id == last'.args[1]
             npc_name == last'.args[2]
             record == IF npc_name \in DOMAIN npc_states[session_id]
                       THEN npc_states[session_id][npc_name] ELSE EmptyDict
             field(name, default) == IF name \in DOMAIN record THEN record[name]
                                     ELSE default
             counter == field("quests_given_recently", 0)
             elapsed == now - field("last_quest_given", 0)
             read == IF counter > 0 /\ elapsed > 3600
                     THEN (IF counter > elapsed \div 3600
                           THEN counter - (elapsed \div 3600) ELSE 0)
                     ELSE counter
             after == npc_states'[session_id][npc_name]
         IN  /\ after.quests_given_recently = read + 1
             /\ after.last_quest_given = now
             /\ after.quest_cooldown_expires = now + 300
             /\ after.relationship = field("relationship", 50)
             /\ after.mood = field("mood", "content")
             /\ "quests_given_recently" \notin DOMAIN record
                    => after.quests_given_recently = 1
             /\ (counter = 1 /\ elapsed <= 3600) => after.quests_given_recently = 2
             /\ \A other \in DOMAIN npc_states[session_id] \ {npc_name} :
                    npc_states'[session_id][other] = npc_states[session_id][other]]_vars

(* two calls in a row for an NPC that had no record: the counter stands at 2 *)
C21_Witness ==
    /\ last.op = "record_quest_given"
    /\ last.args = <<"s1", "npc_b">>
    /\ calls_left = MaxDecayCalls - 2
    /\ "npc_b" \in DOMAIN npc_states["s1"]
    /\ npc_states["s1"]["npc_b"].quests_given_recently = 2
    /\ npc_states["s1"]["npc_b"].last_quest_given = now
    /\ npc_states["s1"]["npc_b"].quest_cooldown_expires = now + 300
    /\ npc_states["s1"]["npc_b"].relationship = 50

(* the stubs of a session for an entity id *)
StubsOf(stubs, session_id, entity_id) ==
    IF entity_id \in DOMAIN stubs /\ stubs[entity_id].session_id = session_id
    THEN {stubs[entity_id]} ELSE {}

(* C22: after process_involved_entities for a session and a list of ids,   *)
(* each listed id unknown to the world data has exactly one stub in that   *)
(* session, of type unknown, status mentioned and needing expansion,       *)
(* however often the id was listed or processed before; and every stub     *)
(* that existed before the call is still there unchanged.                  *)
C22_StubsIdempotent ==
    [][last'.op = "process_involved_entities" =>
         LET session_id == last'.args[1]
             entities == last'.args[2]
         IN  /\ \A i \in DOMAIN entities :
                    entities[i] \notin {"npc_a", "town"} =>
                        /\ Cardinality(StubsOf(entity_stubs', session_id, entities[i])) = 1
                        /\ \A stub \in StubsOf(entity_stubs', session_id, entities[i]) :
                               /\ stub.type = "unknown"
                               /\ stub.status = "mentioned"
                               /\ stub.needs_expansion
             /\ \A id \in DOMAIN entity_stubs :
                    id \in DOMAIN entity_stubs' /\ entity_stubs'[id] = entity_stubs[id]]_vars

(* C23: after add_quest with involved entities, every involved id unknown  *)
(* to the world data has a stub in the session; new_entity_1 gets the stub *)
(* named "New Entity 1".                                                   *)
C23_OfferCreatesStubs ==
    [][(last'.op = "add_quest" /\ "involved_entities" \in DOMAIN last'.args[2]) =>
         LET session_id == last'.args[1]
             entities == last'.args[2].involved_entities
         IN  /\ \A i \in DOMAIN entities :
                    entities[i] \notin {"npc_a", "town"} =>
                        StubsOf(entity_stubs', session_id, entities[i]) # {}
             /\ \A i \in DOMAIN entities :
                    entities[i] = "new_entity_1" =>
                        \E stub \in StubsOf(entity_stubs', session_id, "new_entity_1") :
                            stub.name = "New Entity 1"]_vars

(* the gold entries among a list of material rewards *)
GoldEntries(material_rewards) ==
    {material_rewards[i] : i \in {j \in DOMAIN material_rewards :
                                      material_rewards[j].type = "gold"}}

(* the violation texts of a list of violations *)
Texts(errors) == {errors[i].text : i \in DOMAIN errors}

(* the gold a proposal offers *)
OfferedGold(llm_output) ==
    IF "quest_offered" \in DOMAIN llm_output
       /\ "rewards" \in DOMAIN llm_output.quest_offered
       /\ "gold" \in DOMAIN llm_output.quest_offered.rewards
    THEN llm_output.quest_offered.rewards.gold ELSE 0

(* the items a proposal offers *)
OfferedItems(llm_output) ==
    IF "quest_offered" \in DOMAIN llm_output
       /\ "rewards" \in DOMAIN llm_output.quest_offered
       /\ "items" \in DOMAIN llm_output.quest_offered.rewards
    THEN llm_output.quest_offered.rewards.items ELSE <<>>

(* C24: for a wealthy giver, a standard-tier quest and relationship 50,    *)
(* gold is drawn from 400..2000 and the calculated amount lies in that     *)
(* range; against every such amount a proposal of 500 gold validates       *)
(* without violation and a proposal of 3100 gold is flagged as too high.   *)
C24_WealthyStandard ==
    /\ (/\ last.op = "calculate_quest_rewards"
        /\ last.args[1] \in {"tier_2_standard", "tough"}
        /\ last.args[2].name = "Merchant"
        /\ last.args[3] = 50) =>
           /\ gold_bounds(last.args[1], last.args[2], 50) = <<400, 2000>>
           /\ Cardinality(GoldEntries(last.ret.material_rewards)) = 1
           /\ \A r \in GoldEntries(last.ret.material_rewards) :
                  r.amount >= 400 /\ r.amount <= 2000
    /\ (/\ last.op = "validate_llm_quest_rewards"
        /\ last.args[2].name = "Merchant") =>
           /\ GoldEntries(last.args[3].material_rewards) # {}
           /\ OfferedGold(last.args[1]) = 500 => last.ret = <<>>
           /\ OfferedGold(last.args[1]) = 3100 =>
                  Texts(last.ret) = {"Gold amount too high"}

(* 3100 gold proposed against the largest amount the merchant can calculate *)
C24_Witness ==
    /\ last.op = "validate_llm_quest_rewards"
    /\ last.args[2] = [name |-> "Merchant", resource_level |-> "wealthy"]
    /\ OfferedGold(last.args[1]) = 3100
    /\ \E r \in GoldEntries(last.args[3].material_rewards) : r.amount = 2000
    /\ last.ret # <<>>

(* C25: for a destitute giver, validate_llm_quest_rewards answers any      *)
(* proposal of more than 0 gold with a violation list whose first entry    *)
(* says the NPC cannot offer gold, whatever was calculated; a proposal of  *)
(* 0 gold and no items gets the empty list.                                *)
C25_DestituteCannotOfferGold ==
    (/\ last.op = "validate_llm_quest_rewards"
     /\ "resource_level" \in DOMAIN last.args[2]
     /\ last.args[2].resource_level = "destitute") =>
        /\ OfferedGold(last.args[1]) > 0 =>
               /\ last.ret # <<>>
               /\ last.ret[1].text = "cannot offer gold."
        /\ (OfferedGold(last.args[1]) = 0 /\ OfferedItems(last.args[1]) = <<>>) =>
               last.ret = <<>>

(* a destitute giver, 100 gold proposed, 500 gold calculated *)
C25_Witness ==
    /\ last.op = "validate_llm_quest_rewards"
    /\ last.args[2] = [name |-> "Giver", resource_level |-> "destitute"]
    /\ OfferedGold(last.args[1]) = 100
    /\ "material_rewards" \in DOMAIN last.args[3]
    /\ \E r \in GoldEntries(last.args[3].material_rewards) : r.amount = 500
    /\ Texts(last.ret) = {"cannot offer gold."}

(* C26: for a giver whose resource level can offer gold,                   *)
(* validate_llm_quest_rewards reports the gold as too high exactly when    *)
(* the proposed gold exceeds one and a half times the largest calculated   *)
(* gold amount (500 against 100 is reported, 500 against 500 is not), so a *)
(* proposal equal to the calculated amount is never reported; the call     *)
(* changes neither its arguments nor any stored record.                    *)
C26_GoldBuffer ==
    [][(last'.op = "validate_llm_quest_rewards" /\ last' # last
           /\ ("resource_level" \notin DOMAIN last'.args[2]
                  \/ last'.args[2].resource_level # "destitute")
           /\ OfferedGold(last'.args[1]) > 0) =>
         LET offered == OfferedGold(last'.args[1])
             amounts == IF "material_rewards" \in DOMAIN last'.args[3]
                        THEN {r.amount : r \in GoldEntries(last'.args[3].material_rewards)}
                        ELSE {}
             largest == IF amounts = {} THEN 0
                        ELSE CHOOSE a \in amounts : \A b \in amounts : b <= a
             flagged == "Gold amount too high" \in Texts(last'.ret)
         IN  /\ flagged <=> (2 * offered > 3 * largest)
             /\ (offered = 500 /\ largest = 100) => flagged
             /\ (offered = 500 /\ largest = 500) => ~flagged
             /\ offered = largest => ~flagged
             /\ input' = input
             /\ UNCHANGED <<npc_states, player_stats, quests, challenges, entity_stubs,
                            session_data>>]_vars

(* 500 gold proposed against a calculated 100 has been reported *)
C26_Witness ==
    /\ last.op = "validate_llm_quest_rewards"
    /\ last.args[2] = [name |-> "Giver", resource_level |-> "wealthy"]
    /\ OfferedGold(last.args[1]) = 500
    /\ "material_rewards" \in DOMAIN last.args[3]
    /\ \E r \in GoldEntries(last.args[3].material_rewards) : r.amount = 100
    /\ Texts(last.ret) = {"Gold amount too high"}

(* C27: calculate_quest_rewards emits a gold entry only for a resource     *)
(* level that can offer gold; for a destitute giver it emits none, for     *)
(* every tier and every relationship 0..100, and still grants xp.          *)
C27_NoGoldFromDestitute ==
    last.op = "calculate_quest_rewards" =>
        LET level == IF "resource_level" \in DOMAIN last.args[2]
                     THEN last.args[2].resource_level ELSE "poor"
        IN  /\ level = "destitute" =>
                   /\ GoldEntries(last.ret.material_rewards) = {}
                   /\ last.ret.xp > 0
            /\ GoldEntries(last.ret.material_rewards) # {} => level # "destitute"

(* a destitute giver, a legendary quest, relationship 100 *)
C27_Witness ==
    /\ last.op = "calculate_quest_rewards"
    /\ last.args = <<"tier_5_legendary", [name |-> "Giver", resource_level |-> "destitute"],
                     100>>
    /\ last.ret.xp = 6250
    /\ GoldEntries(last.ret.material_rewards) = {}

(* the XP range of the tier a tier name stands for *)
XpRangeOf(tier_name) ==
    CASE tier_name \in {"tier_0_trivial", "trivial"} -> <<5, 15>>
      [] tier_name \in {"tier_2_standard", "tough"} -> <<100, 200>>
      [] tier_name \in {"tier_3_significant", "elite"} -> <<300, 500>>
      [] tier_name \in {"tier_4_major", "boss", "Boss"} -> <<750, 1500>>
      [] tier_name \in {"tier_5_legendary", "legendary"} -> <<2000, 5000>>
      [] OTHER -> <<25, 50>>

(* C28: calculate_quest_rewards returns xp = floor(draw * (1 +             *)
(* (relationship - 50) / 200)) for a draw inside the tier's XP range, so   *)
(* xp lies between floor(0.75 * min) and floor(1.25 * max), inside the     *)
(* tier's range at relationship 50; every gold amount emitted is a         *)
(* non-negative integer from a range with scaled min <= scaled max.        *)
C28_XpAndGoldArithmetic ==
    last.op = "calculate_quest_rewards" =>
        LET range == XpRangeOf(last.args[1])
            relationship == last.args[3]
            draw == last.draws[1]
            bounds == gold_bounds(last.args[1], last.args[2], relationship)
        IN  /\ draw >= range[1] /\ draw <= range[2]
            /\ last.ret.xp = (draw * (150 + relationship)) \div 200
            /\ last.ret.xp >= (3 * range[1]) \div 4
            /\ last.ret.xp <= (5 * range[2]) \div 4
            /\ relationship = 50 => (last.ret.xp >= range[1] /\ last.ret.xp <= range[2])
            /\ \A r \in GoldEntries(last.ret.material_rewards) :
                   /\ r.amount >= 0
                   /\ bounds[1] <= bounds[2]
                   /\ r.amount >= bounds[1] /\ r.amount <= bounds[2]

(* the largest gold of the tier a tier name stands for *)
TierMaxGold(tier_name) ==
    CASE tier_name \in {"tier_0_trivial", "trivial"} -> 5
      [] tier_name \in {"tier_1_minor", "average"} -> 25
      [] tier_name \in {"tier_2_standard", "tough"} -> 100
      [] tier_name \in {"tier_3_significant", "elite"} -> 300
      [] tier_name \in {"tier_4_major", "boss", "Boss"} -> 1000
      [] tier_name \in {"tier_5_legendary", "legendary"} -> 5000

(* C29: validate_quest_rewards leaves a flat gold reward that is at most   *)
(* the maximum gold of the quest's tier as it is and sets a larger one to  *)
(* that maximum, for the legacy tier names and the tier_N names alike      *)
(* (average: 20 stays 20, 500 becomes 25; boss: 800 stays 800); a second   *)
(* application changes nothing.                                            *)
C29_FlatGoldCap ==
    (/\ last.op = "validate_quest_rewards"
     /\ "tier" \in DOMAIN last.args[1]
     /\ last.args[1].tier # "unknown_tier"
     /\ "rewards" \in DOMAIN last.args[1]) =>
        LET gold == last.args[1].rewards.gold
            cap == TierMaxGold(last.args[1].tier)
        IN  /\ last.ret.rewards.gold = IF gold <= cap THEN gold ELSE cap
            /\ validate_quest_rewards(last.ret) = last.ret

WellFormedChallenge(challenge) ==
    /\ {"id", "description", "type", "dc", "difficulty"} \subseteq DOMAIN challenge
    /\ Contains(valid_types, challenge.type)
    /\ challenge.difficulty \in DOMAIN dc_map
    /\ challenge.dc = dc_map[challenge.difficulty]

(* the challenge declares a difficulty of the four and a dc that is not the *)
(* difficulty's, or a type outside the four                                 *)
IllFormedChallenge(challenge) ==
    \/ /\ {"dc", "difficulty"} \subseteq DOMAIN challenge
       /\ challenge.difficulty \in DOMAIN dc_map
       /\ challenge.dc # dc_map[challenge.difficulty]
    \/ /\ "type" \in DOMAIN challenge
       /\ ~Contains(valid_types, challenge.type)

(* C31: validate_quest_output returns no violation for a proposal with an   *)
(* id, a description and a challenge list whose challenges each have an id, *)
(* a description, a type of the four and the dc of their difficulty; it     *)
(* returns at least one when a challenge's dc differs from its difficulty's *)
(* dc or its type is outside the four.                                      *)
C31_ValidateQuestOutput ==
    last.op = "validate_quest_output" =>
        LET quest_data == last.args[1]
            list == Get(quest_data, "challenges", <<>>)
        IN  /\ ( /\ {"id", "description", "challenges"} \subseteq DOMAIN quest_data
                 /\ \A i \in 1..Len(list) : WellFormedChallenge(list[i]) )
               => last.ret = <<>>
            /\ (\E i \in 1..Len(list) : IllFormedChallenge(list[i]))
               => last.ret # <<>>


(* the ids of the challenges of a proposal *)
ProposedIds(quest_data) ==
    LET list == Get(quest_data, "challenges", <<>>) IN {list[i].id : i \in 1..Len(list)}

(* C32: after add_quest for quest id q the quest's status is offered and    *)
(* the challenges attached to q are exactly those of the new proposal, each *)
(* incomplete with no result: a re-offer leaves no challenge of an earlier  *)
(* offer attached to q.                                                     *)
C32_ReofferOverwrites ==
    [][(calls_left' < calls_left /\ last'.op = "add_quest") =>
        LET quest_data == last'.args[2] IN
        /\ quests'[quest_data.id].status = "offered"
        /\ ChallengesOf(challenges', quest_data.id) = ProposedIds(quest_data)
        /\ \A c \in ChallengesOf(challenges', quest_data.id) :
               ~challenges'[c].completed /\ challenges'[c].result = NULL]_vars


(* the capabilities of NPC_RESOURCE_LEVELS that name items *)
ItemCapabilities == {"items", "valuable_items", "fine_items", "rare_items", "legendary_items"}

CanOfferItems(resource_level) ==
    \E i \in 1..Len(resource_level.can_offer) :
        resource_level.can_offer[i] \in ItemCapabilities

(* C33: for a resource level whose capabilities include an item-like one    *)
(* (wealthy with rare_items, opulent with legendary_items)                  *)
(* calculate_quest_rewards emits an item reward of the level's item tier    *)
(* and validate_llm_quest_rewards does not flag proposed items; for a level *)
(* that cannot offer items no item reward is emitted and proposed items are *)
(* flagged.                                                                 *)
C33_ItemRewards ==
    /\ last.op = "calculate_quest_rewards" =>
           LET resource_level == resource_level_of(last.args[2])
               items == SelectSeq(last.ret.material_rewards,
                                  LAMBDA reward : reward.type = "item")
           IN  IF CanOfferItems(resource_level)
               THEN Len(items) = 1 /\ items[1].tier = resource_level.item_tier
               ELSE items = <<>>
    /\ (last.op = "validate_llm_quest_rewards" /\ OfferedItems(last.args[1]) # <<>>) =>
           ("cannot offer items." \in Texts(last.ret)
                <=> ~CanOfferItems(resource_level_of(last.args[2])))


(* the entity has state in the session's npc_states *)
InNpcStates(session_id, entity_id) ==
    session_id \in DOMAIN npc_states /\ entity_id \in DOMAIN npc_states[session_id]

(* C34: process_involved_entities creates no stub for an entity id that is  *)
(* present in the session's dynamic NPC state, as it creates none for an id *)
(* of a character or location of the static world.                          *)
C34_NoStubForKnownNpc ==
    [][(calls_left' < calls_left /\ last'.op = "process_involved_entities") =>
        LET session_id == last'.args[1]
            entities == last'.args[2]
        IN  \A i \in 1..Len(entities) :
                (KnownInWorld(entities[i]) \/ InNpcStates(session_id, entities[i]))
                => (entities[i] \in DOMAIN entity_stubs'
                        => /\ entities[i] \in DOMAIN entity_stubs
                           /\ entity_stubs'[entities[i]] = entity_stubs[entities[i]])]_vars


(* C35: stubs are kept per (session, entity): if session A holds a stub for *)
(* entity e, process_involved_entities for e in another session B succeeds  *)
(* and afterwards exactly one stub exists for (A, e) and one for (B, e).    *)
C35_StubsPerSession ==
    [][(calls_left' < calls_left /\ last'.op = "process_involved_entities") =>
        LET B == last'.args[1]
            entities == last'.args[2]
        IN  \A A \in Sessions \ {B} : \A i \in 1..Len(entities) :
                StubsOf(entity_stubs, A, entities[i]) # {} =>
                    /\ last'.ret = None
                    /\ Cardinality(StubsOf(entity_stubs', A, entities[i])) = 1
                    /\ Cardinality(StubsOf(entity_stubs', B, entities[i])) = 1]_vars


(* C36: offering a quest updates the giver's spam tracking: after a quest   *)
(* given by NPC n is offered in a session, n's quests_given_recently in     *)
(* that session is one higher than before and last_quest_given is the time  *)
(* of the offer.                                                            *)
C36_OfferCountsQuest ==
    [][(calls_left' < calls_left /\ last'.op = "add_quest"
        /\ last'.args[1] \in DOMAIN npc_states) =>
        LET session_id == last'.args[1]
            n == last'.args[2].giver_npc
            before == get_npc_state(npc_states, session_id, n, now)
            after == get_npc_state(npc_states', session_id, n, now')
        IN  /\ after.quests_given_recently = before.quests_given_recently + 1
            /\ after.last_quest_given = now]_vars


(* C37: the preview agrees with the resolution: for an incomplete challenge *)
(* of an active quest, whatever its type string, if get_active_quests or    *)
(* get_quest_context_for_npc reports auto_success (auto_failure), then      *)
(* resolve_challenge with unchanged stats is auto-resolved with success     *)
(* true (false), and if the preview requires a roll, a roll is drawn.       *)
C37_PreviewAgrees ==
    [][(calls_left' < calls_left /\ Resolved(last')
        /\ ~challenges[last'.args[2]].completed
        /\ quests[challenges[last'.args[2]].quest_id].status = "active") =>
        LET session_id == last'.args[1]
            challenge == ChallengeDict(challenges, last'.args[2])
            listed == active_challenge(player_stats, session_id, "active", challenge)
            context == context_challenge(player_stats, session_id, "active", challenge)
            result == last'.ret
            auto(success) == /\ "auto_resolved" \in DOMAIN result
                             /\ result.success = success
                             /\ last'.draws = <<>>
        IN  /\ ("auto_result" \in DOMAIN listed /\ listed.auto_result = "auto_success")
                   => auto(TRUE)
            /\ ("auto_result" \in DOMAIN listed /\ listed.auto_result = "auto_failure")
                   => auto(FALSE)
            /\ "auto_result" \notin DOMAIN listed => last'.draws # <<>>
            /\ context.outcome = "auto_success" => auto(TRUE)
            /\ context.outcome = "auto_failure" => auto(FALSE)
            /\ context.requires_roll => last'.draws # <<>>]_vars


(* C38: in the rolled branch of resolve_challenge (-10 < stat - dc < 5) the *)
(* recorded margin total - dc lies in -8..24, the severity is one of        *)
(* success, minor, major and critical and never severe, a natural 20 is a   *)
(* success, and no resolve_challenge call applies the severe_failure        *)
(* modifier to the giver's relationship.                                    *)
C38_RolledOutcomes ==
    [][(calls_left' < calls_left /\ Resolved(last')) =>
        LET result == last'.ret
            session_id == last'.args[1]
            giver == quests[challenges[last'.args[2]].quest_id].giver_npc
        IN  /\ "auto_resolved" \notin DOMAIN result =>
                   /\ result.stat_bonus - result.dc \in -9..4
                   /\ result.total = result.roll + result.stat_bonus
                   /\ result.margin = result.total - result.dc
                   /\ result.margin \in -8..24
                   /\ result.severity \in {"success", "minor", "major", "critical"}
                   /\ result.roll = 20 => (result.success /\ result.severity = "success")
            /\ result.severity # "severe"
            /\ Relationship(npc_states', session_id, giver)
                   # Relationship(npc_states, session_id, giver)
                       + RELATIONSHIP_MODIFIERS.severe_failure]_vars

(* a rolled resolution at the lowest margin: a natural 1 with the stat 9    *)
(* below the dc                                                             *)
C38_Witness ==
    /\ Resolved(last)
    /\ "auto_resolved" \notin DOMAIN last.ret
    /\ last.ret.margin = -8
    /\ last.ret.severity = "critical"


(* C39: decay is not compounded by repeated reads: a read of an NPC's state *)
(* that directly follows a read of the same NPC at the same instant returns *)
(* the same quests_given_recently, namely the counter the first read found  *)
(* less the whole hours elapsed since last_quest_given, floored at 0.       *)
C39_ReadsDoNotCompound ==
    [][(calls_left' < calls_left
        /\ last'.op = "get_npc_state" /\ last.op = "get_npc_state"
        /\ last'.args = last.args /\ last'.draws = last.draws) =>
        LET counter == input.before.quests_given_recently
            elapsed == now - input.before.last_quest_given
            hours == elapsed \div 3600
        IN  /\ last'.ret.quests_given_recently = last.ret.quests_given_recently
            /\ last'.ret.quests_given_recently =
                   IF counter > 0 /\ elapsed > 3600
                   THEN Max(0, counter - hours) ELSE counter]_vars


(* the challenge rows of a session that reference the quest *)
SessionChallenges(chs, session_id, quest_id) ==
    {c \in DOMAIN chs : chs[c].session_id = session_id /\ chs[c].quest_id = quest_id}

(* C40: quest and challenge records are isolated per session: no operation *)
(* performed in session B, including offering a quest or a challenge whose  *)
(* id is already used in session A, changes the status, the challenge set   *)
(* or the challenge results of a quest of session A.                        *)
C40_SessionIsolation ==
    [][calls_left' < calls_left =>
        LET B == last'.args[1] IN
        \A q \in DOMAIN quests :
            quests[q].session_id # B =>
                LET A == quests[q].session_id IN
                /\ q \in DOMAIN quests'
                /\ quests'[q].session_id = A
                /\ quests'[q].status = quests[q].status
                /\ SessionChallenges(challenges', A, q) = SessionChallenges(challenges, A, q)
                /\ \A c \in SessionChallenges(challenges, A, q) :
                       /\ challenges'[c].completed = challenges[c].completed
                       /\ challenges'[c].result = challenges[c].result]_vars

====
